---------------------------- MODULE Spec2Model ----------------------------
(***************************************************************************)
(* Model of the svelte-citadel rules engine: the action registry, the      *)
(* core and builder action handlers and validators, the registry-based     *)
(* state derivation engine, and the board connectivity predicate.          *)
(*                                                                         *)
(* Representation: a Coordinate {x, y} is the tuple <<x, y>>; a null       *)
(* position is the empty tuple; a null id is the string "null".  A         *)
(* validator's result `true` is the string "true"; any other string is the *)
(* rejection reason it returned.                                           *)
(***************************************************************************)
EXTENDS Integers, Sequences, FiniteSets, TLC

VARIABLES
  actionDefinitions,  \* ActionRegistry.actionDefinitions : kind -> definition
  actionHandlers,     \* ActionRegistry.actionHandlers    : kind -> handler
  actionValidators,   \* ActionRegistry.actionValidators  : kind -> validator
  initialized,        \* GameStateDerivation.initialized
  now,                \* the wall clock read by Date.now()
  state,              \* the caller's current GameState (folded action by action)
  accepted,           \* TRUE while every action folded into state was validated
  log,                \* the action log handed to deriveState
  derived,            \* the result of the latest deriveState call
  prevDerived,        \* the result of the deriveState call before that
  actionCount,        \* the number of actions folded into state (actions.length)
  lastCall,           \* the latest registry or engine call and its outcome
  history,            \* the definitions registered for CustomKind since clear()
  theBoard,           \* the Board the board functions are called on
  search              \* a call of a board function: arguments, loop state, result

vars == <<actionDefinitions, actionHandlers, actionValidators, initialized,
          now, state, accepted, actionCount, log, derived, prevDerived, lastCall,
          history, theBoard, search>>

regVars == <<actionDefinitions, actionHandlers, actionValidators, initialized>>
boardVars == <<theBoard, search>>

----------------------------------------------------------------------------
(* Bounds of the model *)

MaxClock == 1        \* Date.now() ranges over 0..MaxClock
MaxActions == 5      \* actions folded into the state of one session
MaxLog == 2          \* length of a log handed to deriveState
MaxRegistrations == 2 \* registerAction calls for CustomKind between two clear()

(* Program constants *)

DefaultMaxPlayers == 2    \* GameFactory.createInitialGameState: maxPlayers
DefaultMaxDistance == 100 \* findReachableArea: maxDistance default

(* Input sets *)

Null == "null"
Undefined == "undefined"
NullPos == <<>>
True == "true"

PlayerIds == {"p1", "p2"}
PlayerNames == {"Alice"}
Coords == {<<0, 0>>, <<1, 0>>, <<2, 0>>}
LandIds == {"l1", "l2", "l3"}
PieceIds == {"b1"}
PieceTypes == {"builder", "turtle"}
CitadelIds == {"c1"}
Timestamps == 1..MaxClock
SessionTimestamps == {1}
\* in a session the caller names the land it places after the target coordinate
LandIdAt(c) == CASE c = <<0, 0>> -> "l1" [] c = <<1, 0>> -> "l2" [] OTHER -> "l3"

CoreKinds == {"join-game", "start-game", "place-land", "place-citadel",
              "select-piece", "place-piece", "move-piece", "capture-piece",
              "end-turn", "concede"}
BuilderKinds == {"builder-place-land", "builder-move-land", "builder-remove-land"}
UnknownKind == "unknown-action-type"
CustomKind == "x"

----------------------------------------------------------------------------
(* Sequence helpers standing for Array.prototype.find / filter / map *)

\* the elements of s at the indices idx, in the order of s
SubSeqAt(s, idx) ==
  [k \in 1..Cardinality(idx) |->
     s[CHOOSE i \in idx : Cardinality({j \in idx : j <= i}) = k]]

\* (s and keep are bound once, as values, before the elements are selected)
SelectSeqBy(s, keep) ==
  CHOOSE kept \in {SubSeqAt(seq, {i \in DOMAIN seq : seq[i] \in set}) :
                     seq \in {s}, set \in {keep}} : TRUE

Range(s) == {s[i] : i \in DOMAIN s}

\* Array.prototype.filter with a predicate given as the set of kept elements
Filter(s, keep) == SelectSeqBy(s, keep)

\* index of the first element of s in the set hit, 0 when there is none
FindIndex(s, hit) ==
  IF \E i \in DOMAIN s : s[i] \in hit
  THEN CHOOSE i \in DOMAIN s : s[i] \in hit /\ \A j \in 1..(i-1) : s[j] \notin hit
  ELSE 0

Abs(n) == IF n < 0 THEN -n ELSE n

\* a Map: new Map() and Map.set(k, v)
EmptyMap == [k \in {} |-> Null]
MapSet(m, k, v) == [x \in DOMAIN m \cup {k} |-> IF x = k THEN v ELSE m[x]]

----------------------------------------------------------------------------
(* Actions (BaseGameAction and its extensions) *)

BaseAction(type, playerId, timestamp) ==
  [type |-> type, playerId |-> playerId, timestamp |-> timestamp,
   playerName |-> Undefined, position |-> NullPos, fromPosition |-> NullPos,
   toPosition |-> NullPos, landId |-> Undefined, citadelId |-> Undefined,
   pieceId |-> Undefined, pieceType |-> Undefined, destination |-> Undefined,
   source |-> Undefined, capturedPieceId |-> Undefined, builderId |-> Undefined]

JoinGameAction(p, ts, name) ==
  [BaseAction("join-game", p, ts) EXCEPT !.playerName = name]
StartGameAction(p, ts) == BaseAction("start-game", p, ts)
PlaceLandAction(p, ts, c, l) ==
  [BaseAction("place-land", p, ts) EXCEPT !.position = c, !.landId = l]
PlaceCitadelAction(p, ts, c, cid) ==
  [BaseAction("place-citadel", p, ts) EXCEPT !.position = c, !.citadelId = cid]
SelectPieceAction(p, ts, pid, pt, dest) ==
  [BaseAction("select-piece", p, ts) EXCEPT !.pieceId = pid, !.pieceType = pt,
                                            !.destination = dest]
PlacePieceAction(p, ts, pid, c, src) ==
  [BaseAction("place-piece", p, ts) EXCEPT !.pieceId = pid, !.position = c,
                                           !.source = src]
MovePieceAction(p, ts, pid, from, to) ==
  [BaseAction("move-piece", p, ts) EXCEPT !.pieceId = pid, !.fromPosition = from,
                                          !.toPosition = to]
CapturePieceAction(p, ts, pid, captured, c) ==
  [BaseAction("capture-piece", p, ts) EXCEPT !.pieceId = pid,
                                             !.capturedPieceId = captured,
                                             !.position = c]
EndTurnAction(p, ts) == BaseAction("end-turn", p, ts)
ConcedeAction(p, ts) == BaseAction("concede", p, ts)
BuilderPlaceLandAction(p, ts, b, l, c) ==
  [BaseAction("builder-place-land", p, ts) EXCEPT !.pieceId = b, !.builderId = b,
                                                  !.landId = l, !.position = c]
BuilderMoveLandAction(p, ts, b, l, from, to) ==
  [BaseAction("builder-move-land", p, ts) EXCEPT !.pieceId = b, !.builderId = b,
                                                 !.landId = l, !.fromPosition = from,
                                                 !.toPosition = to]
BuilderRemoveLandAction(p, ts, b, l, c) ==
  [BaseAction("builder-remove-land", p, ts) EXCEPT !.pieceId = b, !.builderId = b,
                                                   !.landId = l, !.position = c]
UnknownAction(p, ts) == BaseAction(UnknownKind, p, ts)
CustomAction(p, ts) == BaseAction(CustomKind, p, ts)

----------------------------------------------------------------------------
(* Core action handlers and validators (CoreActionHandlers.ts) *)

HasPlayer(s, p) == \E i \in DOMAIN s.players : s.players[i].id = p
LandsAt(s, c) == {l \in Range(s.lands) : l.position = c}
PiecesAt(s, c) == {p \in Range(s.pieces) : p.position # NullPos /\ p.position = c}

handleJoinGame(s, a) ==
  IF HasPlayer(s, a.playerId) THEN s
  ELSE [s EXCEPT !.players = Append(@, [id |-> a.playerId, name |-> a.playerName,
                                         isHost |-> FALSE, personalStash |-> <<>>,
                                         turnOrder |-> Len(s.players)])]

validateJoinGame(s, a) ==
  IF s.phase # "setup" THEN "Can only join during setup phase"
  ELSE IF Len(s.players) >= s.config.maxPlayers THEN "Game is full"
  ELSE IF HasPlayer(s, a.playerId) THEN "Player already in game"
  ELSE True

\* a start-game handler without the guard on the setup phase
handleStartGame_fromAnyPhase(s, a) ==
  [s EXCEPT !.phase = "land-placement",
            !.currentPlayerId = IF Len(s.players) > 0 THEN s.players[1].id
                                ELSE Null]

handleStartGame(s, a) ==
  IF s.phase # "setup" THEN s
  ELSE [s EXCEPT !.phase = "land-placement",
                 !.currentPlayerId = IF Len(s.players) > 0 THEN s.players[1].id
                                     ELSE Null]

validateStartGame(s, a) ==
  IF s.phase # "setup" THEN "Can only start from setup phase"
  ELSE IF Len(s.players) < 2 THEN "Need at least 2 players to start"
  ELSE True

handlePlaceLand(s, a) ==
  IF LandsAt(s, a.position) # {} THEN s
  ELSE [s EXCEPT !.lands = Append(@, [id |-> a.landId, position |-> a.position,
                                      ownerId |-> a.playerId])]

validatePlaceLand(s, a) ==
  IF s.phase # "land-placement"
    THEN "Can only place land during land placement phase"
  ELSE IF s.currentPlayerId # a.playerId THEN "Not your turn"
  ELSE IF LandsAt(s, a.position) # {} THEN "Position already has land"
  ELSE True

\* state.lands.find(l => l.position equals c): the first such land
FirstLandAt(s, c) == s.lands[FindIndex(s.lands, LandsAt(s, c))]

handlePlaceCitadel(s, a) ==
  IF LandsAt(s, a.position) = {} THEN s
  ELSE IF FirstLandAt(s, a.position).ownerId # a.playerId THEN s
  ELSE [s EXCEPT !.citadels = Append(@, [id |-> a.citadelId,
                                         position |-> a.position,
                                         ownerId |-> a.playerId])]

validatePlaceCitadel(s, a) ==
  IF s.phase # "citadel-placement"
    THEN "Can only place citadel during citadel placement phase"
  ELSE IF LandsAt(s, a.position) = {} THEN "No land at that position"
  ELSE IF FirstLandAt(s, a.position).ownerId # a.playerId
    THEN "Can only place citadel on your own land"
  ELSE True

handleSelectPiece(s, a) ==
  LET newPiece == [id |-> a.pieceId, type |-> a.pieceType,
                   ownerId |-> IF a.destination = "personal" THEN a.playerId
                               ELSE "community",
                   position |-> NullPos]
  IN IF a.destination = "personal"
     THEN [s EXCEPT !.players =
             [i \in DOMAIN s.players |->
                IF s.players[i].id = a.playerId
                THEN [s.players[i] EXCEPT !.personalStash = Append(@, newPiece)]
                ELSE s.players[i]]]
     ELSE [s EXCEPT !.communityPool = Append(@, newPiece)]

\* the first element of seq whose id is pid, as a set of at most one element
FindById(seq, pid) ==
  LET i == FindIndex(seq, {e \in Range(seq) : e.id = pid})
  IN IF i = 0 THEN {} ELSE {seq[i]}

WithoutId(seq, pid) == Filter(seq, {e \in Range(seq) : e.id # pid})

handlePlacePiece(s, a) ==
  IF a.source = "personal"
  THEN LET pi == FindIndex(s.players, {p \in Range(s.players) : p.id = a.playerId})
           found == IF pi = 0 THEN {}
                    ELSE FindById(s.players[pi].personalStash, a.pieceId)
       IN IF found = {} THEN s
          ELSE LET piece == CHOOSE p \in found : TRUE
               IN [s EXCEPT
                     !.players =
                       [i \in DOMAIN s.players |->
                          IF s.players[i].id = a.playerId
                          THEN [s.players[i] EXCEPT
                                  !.personalStash = WithoutId(@, a.pieceId)]
                          ELSE s.players[i]],
                     !.pieces = Append(@, [piece EXCEPT !.position = a.position])]
  ELSE LET found == FindById(s.communityPool, a.pieceId)
       IN IF found = {} THEN s
          ELSE LET piece == CHOOSE p \in found : TRUE
               IN [s EXCEPT
                     !.communityPool = WithoutId(@, a.pieceId),
                     !.pieces = Append(@, [piece EXCEPT !.ownerId = a.playerId,
                                                        !.position = a.position])]

validatePlacePiece(s, a) ==
  IF s.phase # "battle" THEN "Can only place pieces during battle phase"
  ELSE IF s.currentPlayerId # a.playerId THEN "Not your turn"
  ELSE IF PiecesAt(s, a.position) # {} THEN "Position already occupied"
  ELSE True

handleMovePiece(s, a) ==
  [s EXCEPT !.pieces = [i \in DOMAIN s.pieces |->
                          IF s.pieces[i].id = a.pieceId
                          THEN [s.pieces[i] EXCEPT !.position = a.toPosition]
                          ELSE s.pieces[i]]]

validateMovePiece(s, a) ==
  IF s.phase # "battle" THEN "Can only move pieces during battle phase"
  ELSE IF s.currentPlayerId # a.playerId THEN "Not your turn"
  ELSE LET found == FindById(s.pieces, a.pieceId)
       IN IF found = {} THEN "Piece not found"
          ELSE IF (CHOOSE p \in found : TRUE).ownerId # a.playerId
            THEN "Not your piece"
          ELSE True

\* a capture that adds the piece to the graveyard and leaves it on the board
handleCapturePiece_keepsOnBoard(s, a) ==
  LET found == FindById(s.pieces, a.capturedPieceId)
  IN IF found = {} THEN s
     ELSE LET capturedPiece == CHOOSE p \in found : TRUE
          IN [s EXCEPT !.graveyard = Append(@, [capturedPiece EXCEPT
                                                  !.position = NullPos])]

handleCapturePiece(s, a) ==
  LET found == FindById(s.pieces, a.capturedPieceId)
  IN IF found = {} THEN s
     ELSE LET capturedPiece == CHOOSE p \in found : TRUE
          IN [s EXCEPT !.pieces = WithoutId(@, a.capturedPieceId),
                       !.graveyard = Append(@, [capturedPiece EXCEPT
                                                  !.position = NullPos])]

\* an end of turn that stops at the last player instead of wrapping
handleEndTurn_noWrap(s, a) ==
  LET n == Len(s.players)
      currentPlayerIndex ==
        FindIndex(s.players, {p \in Range(s.players) : p.id = s.currentPlayerId}) - 1
  IN [s EXCEPT !.currentPlayerId =
        IF n = 0 THEN Null
        ELSE s.players[IF currentPlayerIndex + 1 < n THEN currentPlayerIndex + 2
                       ELSE n].id]

handleEndTurn(s, a) ==
  LET n == Len(s.players)
      \* findIndex is 0-based and gives -1 when nothing matches
      currentPlayerIndex ==
        FindIndex(s.players, {p \in Range(s.players) : p.id = s.currentPlayerId}) - 1
  IN [s EXCEPT !.currentPlayerId =
        IF n = 0 THEN Null   \* (i + 1) % 0 is NaN, players[NaN] is undefined
        ELSE s.players[((currentPlayerIndex + 1) % n) + 1].id]

validateEndTurn(s, a) ==
  IF s.currentPlayerId # a.playerId THEN "Not your turn" ELSE True

handleConcede(s, a) ==
  LET i == FindIndex(s.players, {p \in Range(s.players) : p.id # a.playerId})
  IN [s EXCEPT !.phase = "finished",
               !.winnerId = IF i = 0 THEN Null ELSE s.players[i].id,
               !.currentPlayerId = Null]

----------------------------------------------------------------------------
(* Builder piece handlers and validators (BuilderPieceExample) *)

\* state.pieces.find(p => p.id === builderId && p.ownerId === playerId)
FindBuilder(s, a) ==
  LET i == FindIndex(s.pieces, {p \in Range(s.pieces) :
                                  p.id = a.builderId /\ p.ownerId = a.playerId})
  IN IF i = 0 THEN {} ELSE {s.pieces[i]}

\* |dx| <= 1 and |dy| <= 1
Near(c, d) == Abs(c[1] - d[1]) <= 1 /\ Abs(c[2] - d[2]) <= 1

\* state.lands.find(l => l.id === landId)
FindLand(s, landId) == FindById(s.lands, landId)

BuilderHandlePlaceLand(s, a) ==
  LET found == FindBuilder(s, a)
  IN IF found = {} THEN s
     ELSE LET builder == CHOOSE b \in found : TRUE
          IN IF builder.position = NullPos THEN s
             ELSE IF ~(Near(builder.position, a.position)
                       /\ builder.position # a.position) THEN s
             ELSE IF LandsAt(s, a.position) # {} THEN s
             ELSE [s EXCEPT !.lands = Append(@, [id |-> a.landId,
                                                 position |-> a.position,
                                                 ownerId |-> a.playerId])]

BuilderValidatePlaceLand(s, a) ==
  LET found == FindBuilder(s, a)
  IN IF found = {} THEN "Builder not found or not owned by player"
     ELSE LET builder == CHOOSE b \in found : TRUE
          IN IF builder.position = NullPos THEN "Builder is not on the board"
             ELSE IF ~(Near(builder.position, a.position)
                       /\ builder.position # a.position)
               THEN "Can only place land adjacent to builder"
             ELSE IF LandsAt(s, a.position) # {} THEN "Position already has land"
             ELSE True

BuilderHandleMoveLand(s, a) ==
  IF FindLand(s, a.landId) = {} THEN s
  ELSE [s EXCEPT
          !.lands = [i \in DOMAIN s.lands |->
                       IF s.lands[i].id = a.landId
                       THEN [s.lands[i] EXCEPT !.position = a.toPosition]
                       ELSE s.lands[i]],
          !.pieces = [i \in DOMAIN s.pieces |->
                        IF s.pieces[i].position # NullPos
                           /\ s.pieces[i].position = a.fromPosition
                        THEN [s.pieces[i] EXCEPT !.position = a.toPosition]
                        ELSE s.pieces[i]]]

BuilderValidateMoveLand(s, a) ==
  LET found == FindBuilder(s, a)
      onBoard == {b \in found : b.position # NullPos}
      lands == FindLand(s, a.landId)
  IN IF onBoard = {} THEN "Builder not found or not on board"
     ELSE IF lands = {} THEN "Land tile not found"
     ELSE IF ~Near((CHOOSE b \in onBoard : TRUE).position,
                   (CHOOSE l \in lands : TRUE).position)
       THEN "Builder must be adjacent to land to move it"
     ELSE IF \E l \in Range(s.lands) : l.position = a.toPosition /\ l.id # a.landId
       THEN "Target position already has land"
     ELSE True

BuilderHandleRemoveLand(s, a) ==
  LET onLand == PiecesAt(s, a.position)
      piecesOnLand == Filter(s.pieces, onLand)
      graveyardPieces == [i \in DOMAIN piecesOnLand |->
                            [piecesOnLand[i] EXCEPT !.position = NullPos]]
  IN [s EXCEPT !.lands = WithoutId(@, a.landId),
               !.pieces = Filter(@, Range(s.pieces) \ onLand),
               !.graveyard = @ \o graveyardPieces]

BuilderValidateRemoveLand(s, a) ==
  LET found == FindBuilder(s, a)
      onBoard == {b \in found : b.position # NullPos}
      lands == FindLand(s, a.landId)
  IN IF onBoard = {} THEN "Builder not found or not on board"
     ELSE IF lands = {} THEN "Land tile not found"
     ELSE IF ~Near((CHOOSE b \in onBoard : TRUE).position,
                   (CHOOSE l \in lands : TRUE).position)
       THEN "Builder must be adjacent to land to remove it"
     ELSE True

----------------------------------------------------------------------------
(* Board: sparse per-layer maps keyed by coordinate (Board.ts) *)

\* the distinct elements of a sequence of keys, in order of first occurrence
\* (the key order of a Map filled by set())
KeyOrder(keys, seen) ==
  SubSeqAt(keys, {i \in DOMAIN keys : /\ keys[i] \notin seen
                                      /\ \A j \in 1..(i - 1) : keys[j] # keys[i]})

\* the entry a Map keeps for key c: the last element set() under that key
LastAt(seq, c) ==
  seq[CHOOSE i \in DOMAIN seq : seq[i].position = c
                                /\ \A j \in (i+1)..Len(seq) : seq[j].position # c]

\* new Board(lands, pieces, citadels): updateBoard fills the four maps
Board(lands, pieces, citadels) ==
  LET onBoard == Filter(pieces, {p \in Range(pieces) : p.position # NullPos})
      turtles == Filter(onBoard, {p \in Range(onBoard) : p.type = "turtle"})
      others == Filter(onBoard, {p \in Range(onBoard) : p.type # "turtle"})
      keysOf(seq) == KeyOrder([i \in DOMAIN seq |-> seq[i].position], {})
      mapOf(seq) == LET ks == keysOf(seq)
                    IN [i \in DOMAIN ks |-> LastAt(seq, ks[i])]
  IN [landMap |-> mapOf(lands), turtleMap |-> mapOf(turtles),
      pieceMap |-> mapOf(others), citadelMap |-> mapOf(citadels)]

MapGet(map, c) == {e \in Range(map) : e.position = c}

hasLand(board, c) == MapGet(board.landMap, c) # {}
hasTurtle(board, c) == MapGet(board.turtleMap, c) # {}
hasFoundation(board, c) == hasLand(board, c) \/ hasTurtle(board, c)

getLandsByOwner(board, ownerId) ==
  Filter(board.landMap, {l \in Range(board.landMap) : l.ownerId = ownerId})
getTurtlesByOwner(board, ownerId) ==
  Filter(board.turtleMap, {t \in Range(board.turtleMap) : t.ownerId = ownerId})

\* CoordinateUtils.getOrthogonalAdjacent: up, down, left, right
getOrthogonalAdjacent(c) ==
  << <<c[1], c[2] - 1>>, <<c[1], c[2] + 1>>, <<c[1] - 1, c[2]>>, <<c[1] + 1, c[2]>> >>

\* the player's own foundation: isValidMove of arePlayerFoundationsConnected
OwnFoundation(board, playerId, c) ==
  (\E l \in MapGet(board.landMap, c) : l.ownerId = playerId)
  \/ (\E t \in MapGet(board.turtleMap, c) : t.ownerId = playerId)

\* The breadth-first flood fill of findReachableArea, level by level: frontier
\* holds the coordinates at the given distance, visited all queued so far.
\* valid is the set of coordinates isValidMove accepts as a step target.
RECURSIVE FloodFill(_, _, _, _, _)
FloodFill(frontier, visited, distance, maxDistance, valid) ==
  IF frontier = {} THEN visited
  ELSE IF distance >= maxDistance THEN visited
  ELSE LET next == {n \in UNION {Range(getOrthogonalAdjacent(c)) : c \in frontier} :
                      n \notin visited /\ n \in valid}
       IN FloodFill(next, visited \cup next, distance + 1, maxDistance, valid)

\* PathfindingUtils.findReachableArea(start, board, {isValidMove}): the set of
\* reachable coordinates; valid lists the coordinates isValidMove accepts
findReachableArea(start, board, valid) ==
  IF ~hasFoundation(board, start) THEN {}
  ELSE FloodFill({start}, {start}, 0, DefaultMaxDistance, valid)

\* every coordinate a board entity stands on or next to
BoardCoords(board) ==
  LET occupied == {e.position : e \in Range(board.landMap) \cup Range(board.turtleMap)}
  IN occupied \cup UNION {Range(getOrthogonalAdjacent(c)) : c \in occupied}

arePlayerFoundationsConnected(playerId, board) ==
  LET playerLands == getLandsByOwner(board, playerId)
      playerTurtles == getTurtlesByOwner(board, playerId)
      allFoundations == [i \in DOMAIN playerLands |-> playerLands[i].position]
                        \o [i \in DOMAIN playerTurtles |-> playerTurtles[i].position]
  IN IF Len(allFoundations) <= 1 THEN TRUE
     ELSE Cardinality(findReachableArea(
            allFoundations[1], board,
            {c \in BoardCoords(board) : OwnFoundation(board, playerId, c)}))
          = Len(allFoundations)

BoardOf(s) == Board(s.lands, s.pieces, s.citadels)

\* Board.isWater, Board.isOccupied
isWater(board, c) == ~hasFoundation(board, c)
isOccupied(board, c) == MapGet(board.pieceMap, c) # {}

\* Board.isValidMoveTarget, Board.canPlacePiece
isValidMoveTarget(board, c) == hasFoundation(board, c) /\ ~isOccupied(board, c)
canPlacePiece(board, c) == isValidMoveTarget(board, c)

\* a getTileInfo that looks for the turtle in the piece layer
getTileInfo_turtleFromPieceLayer(board, coordinate) ==
  LET land == MapGet(board.landMap, coordinate)
      piece == MapGet(board.pieceMap, coordinate)
      turtle == {p \in piece : p.type = "turtle"}
      foundationLayer == IF land # {} THEN "land"
                         ELSE IF turtle # {} THEN "turtle" ELSE "water"
  IN [coordinate |-> coordinate, land |-> land, turtle |-> turtle, piece |-> piece,
      citadel |-> MapGet(board.citadelMap, coordinate),
      foundationLayer |-> foundationLayer,
      hasFoundation |-> foundationLayer # "water",
      isWater |-> ~(foundationLayer # "water"),
      hasLand |-> land # {}, hasTurtle |-> turtle # {},
      isOccupied |-> piece # {},
      canPlacePiece |-> foundationLayer # "water" /\ ~(piece # {})]

\* Board.getTileInfo; a layer's entry is the set of the (at most one) entity
\* the layer's map holds for the key, the empty set standing for null
getTileInfo(board, coordinate) ==
  LET land == MapGet(board.landMap, coordinate)
      turtle == MapGet(board.turtleMap, coordinate)
      piece == MapGet(board.pieceMap, coordinate)
      citadel == MapGet(board.citadelMap, coordinate)
      foundationLayer == IF land # {} THEN "land"
                         ELSE IF turtle # {} THEN "turtle" ELSE "water"
      hasFoundation_ == foundationLayer # "water"
      isOccupied_ == piece # {}
  IN [coordinate |-> coordinate, land |-> land, turtle |-> turtle, piece |-> piece,
      citadel |-> citadel, foundationLayer |-> foundationLayer,
      hasFoundation |-> hasFoundation_, isWater |-> ~hasFoundation_,
      hasLand |-> land # {}, hasTurtle |-> turtle # {},
      isOccupied |-> isOccupied_,
      canPlacePiece |-> hasFoundation_ /\ ~isOccupied_]

\* CoordinateUtils.getDiagonalAdjacent / getAllAdjacent
getDiagonalAdjacent(c) ==
  << <<c[1] - 1, c[2] - 1>>, <<c[1] + 1, c[2] - 1>>, <<c[1] - 1, c[2] + 1>>,
     <<c[1] + 1, c[2] + 1>> >>
getAllAdjacent(c) == getOrthogonalAdjacent(c) \o getDiagonalAdjacent(c)

manhattanDistance(a, b) == Abs(a[1] - b[1]) + Abs(a[2] - b[2])

\* PathfindingUtils.isCitadelConnected
isCitadelConnected(citadelCoord, playerId, board) ==
  IF Len(getLandsByOwner(board, playerId)) = 0
     /\ Len(getTurtlesByOwner(board, playerId)) = 0 THEN FALSE
  ELSE IF ~\E c \in Range(getOrthogonalAdjacent(citadelCoord)) :
             OwnFoundation(board, playerId, c) THEN FALSE
  ELSE arePlayerFoundationsConnected(playerId, board)

----------------------------------------------------------------------------
(* PathfindingUtils.findPath (Board.ts).  An isValidMove function is named   *)
(* by a string: "default" is the function findPath uses when none is given,  *)
(* "foundation" the one findReachableArea uses when none is given, and       *)
(* "ignoreOccupancy" and "acceptAll" are functions a caller passes.          *)

IsValidMove_ignoresOccupancy(name, from, to, board) ==
  name = "acceptAll" \/ hasFoundation(board, to)
IsValidMove(name, from, to, board) ==
  CASE name = "default" -> hasFoundation(board, to) /\ ~isOccupied(board, to)
    [] name = "foundation" -> hasFoundation(board, to)
    [] name = "ignoreOccupancy" -> hasFoundation(board, to)
    [] name = "acceptAll" -> TRUE

\* PathfindingOptions with the defaults of findPath filled in
PathfindingOptions(maxDistance, allowDiagonal, isValidMove, includeStart) ==
  [maxDistance |-> maxDistance, allowDiagonal |-> allowDiagonal,
   isValidMove |-> isValidMove, includeStart |-> includeStart]

DefaultOptions == PathfindingOptions(DefaultMaxDistance, FALSE, "default", TRUE)

Neighbors_alwaysDiagonal(c, allowDiagonal) == getAllAdjacent(c)
Neighbors(c, allowDiagonal) ==
  IF allowDiagonal THEN getAllAdjacent(c) ELSE getOrthogonalAdjacent(c)

PathfindingResult(found, path, explored) ==
  [found |-> found, path |-> path, distance |-> Len(path), explored |-> explored]

\* gScore, fScore and cameFrom: a Map as the set of its <<key, value>> entries
MapPut(m, k, v) == {e \in m \cup {<<k, v>>} : e[1] # k \/ e = <<k, v>>}
MapHas(m, k) == \E e \in m : e[1] = k
MapAt(m, k) == (CHOOSE e \in m : e[1] = k)[2]

\* a selection that takes the key of openSet with the highest fScore
LowestFScore_highest(open, f) ==
  open[CHOOSE i \in DOMAIN open :
         /\ \A j \in DOMAIN open : MapAt(f, open[i]) >= MapAt(f, open[j])
         /\ \A j \in 1..(i - 1) : MapAt(f, open[j]) < MapAt(f, open[i])]

\* the key of openSet with the lowest fScore, the first one among equals
\* (fScore is positive for every key: start differs from goal)
LowestFScore(open, f) ==
  open[CHOOSE i \in DOMAIN open :
         /\ \A j \in DOMAIN open : MapAt(f, open[i]) <= MapAt(f, open[j])
         /\ \A j \in 1..(i - 1) : MapAt(f, open[j]) > MapAt(f, open[i])]

\* path.unshift(current) while cameFrom has a predecessor
RECURSIVE ReconstructPath(_, _, _)
ReconstructPath(current, cameFrom, path) ==
  IF MapHas(cameFrom, current)
  THEN ReconstructPath(MapAt(cameFrom, current), cameFrom, <<current>> \o path)
  ELSE <<current>> \o path

\* the body of the for loop over the neighbors of current, for the neighbor
\* n; st holds openSet, gScore, fScore and cameFrom
RelaxNeighbor(n, current, closed, st, goal, board, options) ==
  LET tentativeGScore == MapAt(st.gScore, current) + 1
      updated == [st EXCEPT
                    !.cameFrom = MapPut(@, n, current),
                    !.gScore = MapPut(@, n, tentativeGScore),
                    !.fScore = MapPut(@, n, tentativeGScore
                                              + manhattanDistance(n, goal))]
  IN IF n \in closed THEN st
     ELSE IF ~IsValidMove(options.isValidMove, current, n, board) THEN st
     ELSE IF n \notin Range(st.openSet)
       THEN [updated EXCEPT !.openSet = Append(@, n)]
     ELSE IF tentativeGScore >= MapAt(st.gScore, n) THEN st
     ELSE updated

\* the for loop over the neighbors ns of current (st is bound once, as a
\* value, before the next iteration reads it)
RECURSIVE RelaxNeighbors(_, _, _, _, _, _, _)
RelaxNeighbors(ns, current, closed, st, goal, board, options) ==
  IF ns = <<>> THEN st
  ELSE CHOOSE last \in
         {RelaxNeighbors(Tail(ns), current, closed,
                         RelaxNeighbor(Head(ns), current, closed, now1, goal,
                                       board, options),
                         goal, board, options) : now1 \in {st}} : TRUE

\* the body of the while loop of findPath once current, the node of openSet
\* with the lowest fScore, is chosen: the search is done with the path to the
\* goal, or it goes on with the new openSet, scores and closedSet
AStarVisit(current, st, closed, goal, board, options) ==
  LET path == ReconstructPath(current, st.cameFrom, <<>>)
      open1 == [st EXCEPT !.openSet = Filter(@, Range(@) \ {current})]
      closed1 == {c \in closed \cup {current} : TRUE}
  IN IF current = goal
     THEN [done |-> TRUE,
           result |-> PathfindingResult(TRUE,
                                        IF ~options.includeStart /\ Len(path) > 0
                                        THEN Tail(path) ELSE path,
                                        closed)]
     ELSE IF MapAt(st.gScore, current) >= options.maxDistance
       THEN [done |-> FALSE, st |-> open1, closed |-> closed1]
     ELSE [done |-> FALSE,
           st |-> RelaxNeighbors(Neighbors(current, options.allowDiagonal),
                                 current, closed1, open1, goal, board, options),
           closed |-> closed1]

\* one iteration of the while loop of findPath (current is bound once, as a
\* value, before the body reads it)
AStarStep(st, closed, goal, board, options) ==
  IF st.openSet = <<>>
  THEN [done |-> TRUE, result |-> PathfindingResult(FALSE, <<>>, closed)]
  ELSE CHOOSE step \in
         {AStarVisit(current, st, closed, goal, board, options) :
            current \in {LowestFScore(st.openSet, st.fScore)}} : TRUE

\* the while loop of findPath
RECURSIVE AStar(_, _, _, _, _)
AStar(st, closed, goal, board, options) ==
  LET step == AStarStep(st, closed, goal, board, options)
  IN IF step.done THEN step.result
     ELSE AStar(step.st, step.closed, goal, board, options)

\* the early exits of findPath: start or goal without foundation, start = goal
FindPathExitsEarly(start, goal, board) ==
  ~hasFoundation(board, start) \/ ~hasFoundation(board, goal) \/ start = goal

FindPathEarlyResult(start, goal, board, options) ==
  IF ~hasFoundation(board, start) \/ ~hasFoundation(board, goal)
  THEN PathfindingResult(FALSE, <<>>, {})
  ELSE [found |-> TRUE,
        path |-> IF options.includeStart THEN <<start>> ELSE <<>>,
        distance |-> 0, explored |-> {start}]

\* openSet, gScore and fScore before the first iteration
AStarStart(start, goal) ==
  [openSet |-> <<start>>,
   gScore |-> {<<start, 0>>},
   fScore |-> {<<start, manhattanDistance(start, goal)>>},
   cameFrom |-> {}]

\* PathfindingUtils.findPath(start, goal, board, options)
findPath(start, goal, board, options) ==
  IF FindPathExitsEarly(start, goal, board)
  THEN FindPathEarlyResult(start, goal, board, options)
  ELSE AStar(AStarStart(start, goal), {}, goal, board, options)

----------------------------------------------------------------------------
(* Water areas (WaterAreaUtils).  A coordinate array is modelled by the set  *)
(* of its elements, and the array of areas by the set of the areas.          *)

\* Board.getAllActiveCoordinates
getAllActiveCoordinates(board) ==
  {e.position : e \in Range(board.landMap) \cup Range(board.turtleMap)
                      \cup Range(board.pieceMap) \cup Range(board.citadelMap)}

Min(S) == CHOOSE n \in S : \A m \in S : n <= m
Max(S) == CHOOSE n \in S : \A m \in S : n >= m

BoundingBox(topLeft, bottomRight) == [topLeft |-> topLeft, bottomRight |-> bottomRight]

\* null or undefined where a bounding box is expected
NoBoundingBox == BoundingBox(<<>>, <<>>)

\* Board.getBoundingBox: null on an empty board
getBoundingBox(board) ==
  LET activeCoords == getAllActiveCoordinates(board)
      xs == {c[1] : c \in activeCoords}
      ys == {c[2] : c \in activeCoords}
  IN IF activeCoords = {} THEN NoBoundingBox
     ELSE BoundingBox(<<Min(xs), Min(ys)>>, <<Max(xs), Max(ys)>>)

\* Board.getCoordinatesInArea
getCoordinatesInArea(topLeft, bottomRight) ==
  {<<x, y>> : x \in topLeft[1]..bottomRight[1], y \in topLeft[2]..bottomRight[2]}

\* the bounds test of findConnectedWater
WithinBounds(c, box) ==
  ~(c[1] < box.topLeft[1] \/ c[1] > box.bottomRight[1]
    \/ c[2] < box.topLeft[2] \/ c[2] > box.bottomRight[2])

\* the breadth-first loop of findConnectedWater, level by level
RECURSIVE WaterFill(_, _, _, _)
WaterFill(frontier, visited, board, box) ==
  IF frontier = {} THEN visited
  ELSE LET next == {n \in UNION {Range(getOrthogonalAdjacent(c)) : c \in frontier} :
                      n \notin visited /\ WithinBounds(n, box) /\ isWater(board, n)}
       IN WaterFill(next, visited \cup next, board, box)

\* WaterAreaUtils.findConnectedWater
findConnectedWater(start, board, boundingBox) ==
  IF ~isWater(board, start) THEN {}
  ELSE WaterFill({start}, {start}, board, boundingBox)

\* WaterAreaUtils.getWaterPerimeter
getWaterPerimeter(waterCoords, board) ==
  {n \in UNION {Range(getOrthogonalAdjacent(c)) : c \in waterCoords} :
     hasLand(board, n)}

\* an enclosure test that looks at the left and right borders only
isWaterAreaEnclosed_leftRightOnly(waterCoords, board, boundingBox) ==
  \A c \in waterCoords :
    ~(c[1] = boundingBox.topLeft[1] \/ c[1] = boundingBox.bottomRight[1])

\* WaterAreaUtils.isWaterAreaEnclosed
isWaterAreaEnclosed(waterCoords, board, boundingBox) ==
  \A c \in waterCoords :
    ~(c[1] = boundingBox.topLeft[1] \/ c[1] = boundingBox.bottomRight[1]
      \/ c[2] = boundingBox.topLeft[2] \/ c[2] = boundingBox.bottomRight[2])

EmptyBoardSearchArea == BoundingBox(<<-5, -5>>, <<5, 5>>)
WaterPadding == 3

\* the search area of findWaterAreas; boundingBox is NoBoundingBox when the
\* caller gives none
SearchArea(board, boundingBox) ==
  IF boundingBox # NoBoundingBox THEN boundingBox
  ELSE LET boardBounds == getBoundingBox(board)
       IN IF boardBounds = NoBoundingBox THEN EmptyBoardSearchArea
          ELSE BoundingBox(<<boardBounds.topLeft[1] - WaterPadding,
                             boardBounds.topLeft[2] - WaterPadding>>,
                           <<boardBounds.bottomRight[1] + WaterPadding,
                             boardBounds.bottomRight[2] + WaterPadding>>)

\* WaterAreaUtils.findWaterAreas
findWaterAreas(board, boundingBox) ==
  LET searchArea == SearchArea(board, boundingBox)
      allCoords == getCoordinatesInArea(searchArea.topLeft, searchArea.bottomRight)
      waterCoords == {c \in allCoords : isWater(board, c)}
  IN {LET areaCoords == findConnectedWater(c, board, searchArea)
      IN [coordinates |-> areaCoords,
          perimeter |-> getWaterPerimeter(areaCoords, board),
          size |-> Cardinality(areaCoords),
          isEnclosed |-> isWaterAreaEnclosed(areaCoords, board, searchArea)]
      : c \in waterCoords}

----------------------------------------------------------------------------
(* Action registry (ActionRegistry.ts).  A handler or validator function is *)
(* named by a string; "none" is an absent validator.                        *)

NoValidator == "none"

CallHandler(h, s, a) ==
  CASE h = "handleJoinGame" -> handleJoinGame(s, a)
    [] h = "handleStartGame" -> handleStartGame(s, a)
    [] h = "handlePlaceLand" -> handlePlaceLand(s, a)
    [] h = "handlePlaceCitadel" -> handlePlaceCitadel(s, a)
    [] h = "handleSelectPiece" -> handleSelectPiece(s, a)
    [] h = "handlePlacePiece" -> handlePlacePiece(s, a)
    [] h = "handleMovePiece" -> handleMovePiece(s, a)
    [] h = "handleCapturePiece" -> handleCapturePiece(s, a)
    [] h = "handleEndTurn" -> handleEndTurn(s, a)
    [] h = "handleConcede" -> handleConcede(s, a)
    [] h = "BuilderPiece.handlePlaceLand" -> BuilderHandlePlaceLand(s, a)
    [] h = "BuilderPiece.handleMoveLand" -> BuilderHandleMoveLand(s, a)
    [] h = "BuilderPiece.handleRemoveLand" -> BuilderHandleRemoveLand(s, a)

CallValidator(v, s, a) ==
  CASE v = "validateJoinGame" -> validateJoinGame(s, a)
    [] v = "validateStartGame" -> validateStartGame(s, a)
    [] v = "validatePlaceLand" -> validatePlaceLand(s, a)
    [] v = "validatePlaceCitadel" -> validatePlaceCitadel(s, a)
    [] v = "validatePlacePiece" -> validatePlacePiece(s, a)
    [] v = "validateMovePiece" -> validateMovePiece(s, a)
    [] v = "validateEndTurn" -> validateEndTurn(s, a)
    [] v = "BuilderPiece.validatePlaceLand" -> BuilderValidatePlaceLand(s, a)
    [] v = "BuilderPiece.validateMoveLand" -> BuilderValidateMoveLand(s, a)
    [] v = "BuilderPiece.validateRemoveLand" -> BuilderValidateRemoveLand(s, a)

Definition(type, handler, validator) ==
  [type |-> type, handler |-> handler, validator |-> validator]

\* the registry as one value
Registry(defs, handlers, validators, init) ==
  [actionDefinitions |-> defs, actionHandlers |-> handlers,
   actionValidators |-> validators, initialized |-> init]

TheRegistry ==
  Registry(actionDefinitions, actionHandlers, actionValidators, initialized)

EmptyRegistry == Registry(EmptyMap, EmptyMap, EmptyMap, FALSE)

\* a registration that keeps the handler a kind already has
registerAction_keepFirst(R, d) ==
  IF d.type \in DOMAIN R.actionHandlers THEN R
  ELSE [R EXCEPT !.actionDefinitions = MapSet(@, d.type, d),
                 !.actionHandlers = MapSet(@, d.type, d.handler),
                 !.actionValidators = IF d.validator # NoValidator
                                      THEN MapSet(@, d.type, d.validator)
                                      ELSE @]

\* ActionRegistry.registerAction
registerAction(R, d) ==
  [R EXCEPT !.actionDefinitions = MapSet(@, d.type, d),
            !.actionHandlers = MapSet(@, d.type, d.handler),
            !.actionValidators = IF d.validator # NoValidator
                                 THEN MapSet(@, d.type, d.validator)
                                 ELSE @]

RECURSIVE registerEach(_, _)
registerEach(R, ds) ==
  IF ds = <<>> THEN R ELSE registerEach(registerAction(R, Head(ds)), Tail(ds))

\* ActionRegistry.clear
clear(R) ==
  [R EXCEPT !.actionDefinitions = EmptyMap, !.actionHandlers = EmptyMap,
            !.actionValidators = EmptyMap]

\* ActionRegistry.applyAction: throws when no handler is registered
RegistryApplyAction(R, s, a) ==
  IF a.type \notin DOMAIN R.actionHandlers
  THEN [threw |-> TRUE, state |-> s]
  ELSE [threw |-> FALSE, state |-> CallHandler(R.actionHandlers[a.type], s, a)]

\* a validateAction that rejects a kind for which it finds no validator
RegistryValidateAction_requiresValidator(R, s, a) ==
  IF a.type \notin DOMAIN R.actionValidators THEN "No validator registered"
  ELSE CallValidator(R.actionValidators[a.type], s, a)

\* ActionRegistry.validateAction
RegistryValidateAction(R, s, a) ==
  IF a.type \notin DOMAIN R.actionValidators THEN True
  ELSE CallValidator(R.actionValidators[a.type], s, a)

\* CoreActionHandlers.registerAll
registerAll(R) ==
  registerEach(R, <<
    Definition("join-game", "handleJoinGame", "validateJoinGame"),
    Definition("start-game", "handleStartGame", "validateStartGame"),
    Definition("place-land", "handlePlaceLand", "validatePlaceLand"),
    Definition("place-citadel", "handlePlaceCitadel", "validatePlaceCitadel"),
    Definition("select-piece", "handleSelectPiece", NoValidator),
    Definition("place-piece", "handlePlacePiece", "validatePlacePiece"),
    Definition("move-piece", "handleMovePiece", "validateMovePiece"),
    Definition("capture-piece", "handleCapturePiece", NoValidator),
    Definition("end-turn", "handleEndTurn", "validateEndTurn"),
    Definition("concede", "handleConcede", NoValidator) >>)

\* BuilderPiece.registerActions (run when the piece module is imported)
registerActions(R) ==
  registerEach(R, <<
    Definition("builder-place-land", "BuilderPiece.handlePlaceLand",
               "BuilderPiece.validatePlaceLand"),
    Definition("builder-move-land", "BuilderPiece.handleMoveLand",
               "BuilderPiece.validateMoveLand"),
    Definition("builder-remove-land", "BuilderPiece.handleRemoveLand",
               "BuilderPiece.validateRemoveLand") >>)

----------------------------------------------------------------------------
(* State derivation engine (ModularGameStateDerivation) *)

InitialState ==
  [id |-> "game", createdAt |-> 0, config |-> [maxPlayers |-> DefaultMaxPlayers]]

\* GameStateDerivation.initialize
initialize(R) ==
  IF R.initialized THEN R ELSE [registerAll(R) EXCEPT !.initialized = TRUE]

\* the zero-action state deriveState starts from; t is Date.now()
BaseState(initialState, t) ==
  [id |-> initialState.id, createdAt |-> initialState.createdAt, updatedAt |-> t,
   phase |-> "setup", config |-> initialState.config, players |-> <<>>,
   currentPlayerId |-> Null, lands |-> <<>>, pieces |-> <<>>, citadels |-> <<>>,
   graveyard |-> <<>>, communityPool |-> <<>>, winnerId |-> Null]

\* an applyAction whose catch block returns currentState instead of baseState
applyAction_catchReturnsCurrent(R, currentState, a) ==
  LET baseState == [currentState EXCEPT !.updatedAt = a.timestamp]
      r == RegistryApplyAction(R, baseState, a)
  IN IF r.threw THEN currentState ELSE r.state

\* GameStateDerivation.applyAction
applyAction(R, currentState, a) ==
  LET baseState == [currentState EXCEPT !.updatedAt = a.timestamp]
      r == RegistryApplyAction(R, baseState, a)
  IN IF r.threw THEN baseState ELSE r.state

\* a replay loop that stops at the first action whose kind has no handler
RECURSIVE foldActions_stopAtUnknown(_, _, _)
foldActions_stopAtUnknown(R, s, actions) ==
  IF actions = <<>> THEN s
  ELSE IF Head(actions).type \notin DOMAIN R.actionHandlers THEN s
  ELSE foldActions_stopAtUnknown(R, applyAction(R, s, Head(actions)), Tail(actions))

\* the for loop of deriveState
RECURSIVE foldActions(_, _, _)
foldActions(R, s, actions) ==
  IF actions = <<>> THEN s
  ELSE foldActions(R, applyAction(R, s, Head(actions)), Tail(actions))

\* GameStateDerivation.deriveState, called on registry R when Date.now() = t:
\* the state it returns (R becomes initialize(R))
deriveState(R, t, initialState, actions) ==
  foldActions(initialize(R), BaseState(initialState, t), actions)

\* GameStateDerivation.validateAction: its verdict (R becomes initialize(R))
validateAction(R, currentState, a) ==
  RegistryValidateAction(initialize(R), currentState, a)

\* a simulateAction that applies the action whatever the verdict
simulateAction_appliesRejected(R, currentState, a) ==
  LET validation == validateAction(R, currentState, a)
  IN [newState |-> applyAction(initialize(R), currentState, a),
      valid |-> validation = True,
      error |-> IF validation = True THEN Undefined ELSE validation]

\* DerivationUtils.simulateAction
simulateAction(R, currentState, a) ==
  LET validation == validateAction(R, currentState, a)
  IN IF validation # True
     THEN [newState |-> currentState, valid |-> FALSE, error |-> validation]
     ELSE [newState |-> applyAction(initialize(R), currentState, a),
           valid |-> TRUE, error |-> Undefined]

\* the message `Action ${i} (${action.type}): ${validation || 'Invalid'}`,
\* kept as its three interpolated parts (the validators return true or a
\* non-empty string, so the 'Invalid' default is never taken)
ErrorMessage(i, a, validation) == [index |-> i, kind |-> a.type, reason |-> validation]

\* a validation loop that returns at the first action that fails
RECURSIVE validateEach_stopAtFirstFailure(_, _, _, _, _)
validateEach_stopAtFirstFailure(R, currentState, actions, i, errors) ==
  IF i >= Len(actions) THEN errors
  ELSE LET action == actions[i + 1]
           validation == validateAction(R, currentState, action)
       IN IF validation # True
          THEN Append(errors, ErrorMessage(i, action, validation))
          ELSE validateEach_stopAtFirstFailure(R, applyAction(R, currentState, action),
                                               actions, i + 1, errors)

\* the for loop of validateActionSequence, from index i (0-based) on
RECURSIVE validateEach(_, _, _, _, _)
validateEach(R, currentState, actions, i, errors) ==
  IF i >= Len(actions) THEN errors
  ELSE LET action == actions[i + 1]
           validation == validateAction(R, currentState, action)
       IN IF validation # True
          THEN validateEach(R, currentState, actions, i + 1,
                            Append(errors, ErrorMessage(i, action, validation)))
          ELSE validateEach(R, applyAction(R, currentState, action), actions,
                            i + 1, errors)

\* DerivationUtils.validateActionSequence; t is Date.now()
validateActionSequence(R, t, initialState, actions) ==
  LET errors == validateEach(initialize(R), deriveState(R, t, initialState, <<>>),
                             actions, 0, <<>>)
  IN [valid |-> Len(errors) = 0, errors |-> errors]

----------------------------------------------------------------------------
(* Records of calls *)

NoResult == [called |-> FALSE, log |-> <<>>, registry |-> EmptyRegistry,
             state |-> BaseState(InitialState, 0)]

NoCall == [op |-> "none", action |-> BaseAction("none", Null, 0),
           registry |-> EmptyRegistry, input |-> BaseState(InitialState, 0),
           threw |-> FALSE, output |-> BaseState(InitialState, 0),
           verdict |-> Undefined, after |-> EmptyRegistry]

\* no board function has been called
NoSearch == [op |-> "none", status |-> "returned"]

InitRegistry(R) ==
  /\ actionDefinitions = R.actionDefinitions
  /\ actionHandlers = R.actionHandlers
  /\ actionValidators = R.actionValidators
  /\ initialized = R.initialized

SetRegistry(R) ==
  /\ actionDefinitions' = R.actionDefinitions
  /\ actionHandlers' = R.actionHandlers
  /\ actionValidators' = R.actionValidators
  /\ initialized' = R.initialized

----------------------------------------------------------------------------
(* Specification Spec: one game session.  The piece module has been imported *)
(* and the session opened with deriveState(init, []); every step folds one   *)
(* more action of the log into the current state with applyAction, as the    *)
(* loop of deriveState does, whether or not validateAction accepts it.       *)

Init ==
  /\ InitRegistry(initialize(registerActions(EmptyRegistry)))
  /\ now = 0
  /\ state = BaseState(InitialState, 0)
  /\ accepted = TRUE
  /\ actionCount = 0
  /\ log = <<>>
  /\ derived = NoResult
  /\ prevDerived = NoResult
  /\ lastCall = NoCall
  /\ history = <<>>
  /\ theBoard = Board(<<>>, <<>>, <<>>)
  /\ search = NoSearch

Play(a) ==
  /\ actionCount < MaxActions
  /\ actionCount' = actionCount + 1
  /\ state' = applyAction(TheRegistry, state, a)
  /\ accepted' = (accepted /\ validateAction(TheRegistry, state, a) = True)
  /\ UNCHANGED <<boardVars, regVars, now, log, derived, prevDerived, lastCall, history>>

JoinGame ==
  \E p \in PlayerIds, ts \in SessionTimestamps, n \in PlayerNames :
    Play(JoinGameAction(p, ts, n))
StartGame ==
  \E p \in PlayerIds, ts \in SessionTimestamps : Play(StartGameAction(p, ts))
PlaceLand ==
  \E p \in PlayerIds, ts \in SessionTimestamps, c \in Coords :
    Play(PlaceLandAction(p, ts, c, LandIdAt(c)))
PlaceCitadel ==
  \E p \in PlayerIds, ts \in SessionTimestamps, c \in Coords, cid \in CitadelIds :
    Play(PlaceCitadelAction(p, ts, c, cid))
SelectPiece ==
  \E p \in PlayerIds, ts \in SessionTimestamps, pid \in PieceIds, pt \in PieceTypes,
     dest \in {"personal", "community"} :
    Play(SelectPieceAction(p, ts, pid, pt, dest))
PlacePiece ==
  \E p \in PlayerIds, ts \in SessionTimestamps, pid \in PieceIds, c \in Coords,
     src \in {"personal", "community"} :
    Play(PlacePieceAction(p, ts, pid, c, src))
MovePiece ==
  \E p \in PlayerIds, ts \in SessionTimestamps, pid \in PieceIds, to \in Coords :
    Play(MovePieceAction(p, ts, pid, NullPos, to))
CapturePiece ==
  \E p \in PlayerIds, ts \in SessionTimestamps, cap \in PieceIds :
    Play(CapturePieceAction(p, ts, Undefined, cap, NullPos))
EndTurn ==
  \E p \in PlayerIds, ts \in SessionTimestamps : Play(EndTurnAction(p, ts))
Concede ==
  \E p \in PlayerIds, ts \in SessionTimestamps : Play(ConcedeAction(p, ts))
BuilderPlaceLand ==
  \E p \in PlayerIds, ts \in SessionTimestamps, b \in PieceIds, c \in Coords :
    Play(BuilderPlaceLandAction(p, ts, b, LandIdAt(c), c))
BuilderMoveLand ==
  \E p \in PlayerIds, ts \in SessionTimestamps, b \in PieceIds, l \in LandIds,
     from \in Coords, to \in Coords :
    Play(BuilderMoveLandAction(p, ts, b, l, from, to))
BuilderRemoveLand ==
  \E p \in PlayerIds, ts \in SessionTimestamps, b \in PieceIds, l \in LandIds,
     c \in Coords :
    Play(BuilderRemoveLandAction(p, ts, b, l, c))
PlayUnknown ==
  \E p \in PlayerIds, ts \in SessionTimestamps : Play(UnknownAction(p, ts))

Next ==
  \/ JoinGame \/ StartGame \/ PlaceLand \/ PlaceCitadel \/ SelectPiece
  \/ PlacePiece \/ MovePiece \/ CapturePiece \/ EndTurn \/ Concede
  \/ BuilderPlaceLand \/ BuilderMoveLand \/ BuilderRemoveLand \/ PlayUnknown

Spec == Init /\ [][Next]_vars

----------------------------------------------------------------------------
(* Claims about a game session (specification Spec) *)

\* C1: starting from the zero-action state, as long as every action folded
\* into the state was accepted by validateAction first, each player's
\* foundations (lands and turtles) are connected on the board built from the
\* state's lands and pieces.
C1_ConnectedAfterAcceptedActions ==
  accepted =>
    \A p \in PlayerIds : arePlayerFoundationsConnected(p, BoardOf(state))

OrthogonalAdjacent(c, d) == d \in Range(getOrthogonalAdjacent(c))

\* the chains A-B-C of three lands that make up all the lands of the state and
\* are owned by player p
Chains(s, p) ==
  {ch \in Range(s.lands) \X Range(s.lands) \X Range(s.lands) :
     /\ Range(s.lands) = {ch[1], ch[2], ch[3]}
     /\ Len(s.lands) = 3
     /\ Cardinality({ch[1].id, ch[2].id, ch[3].id}) = 3
     /\ Cardinality({ch[1].position, ch[2].position, ch[3].position}) = 3
     /\ \A i \in 1..3 : ch[i].ownerId = p
     /\ OrthogonalAdjacent(ch[1].position, ch[2].position)
     /\ OrthogonalAdjacent(ch[2].position, ch[3].position)}

\* the on-board builders of player p next to coordinate c
BuildersNear(s, p, c) ==
  {b \in Range(s.pieces) : /\ b.ownerId = p
                           /\ b.type = "builder"
                           /\ b.position # NullPos
                           /\ Near(b.position, c)
                           /\ FindBuilder(s, [builderId |-> b.id, playerId |-> p]) = {b}}

\* C2: when a player owns three lands in an orthogonal chain A-B-C, a
\* builder-remove-land action on B by that player's on-board builder next to B
\* is rejected by validation, and A, B and C all remain in the state.
C2_ChainRemovalRejected ==
  \A p \in PlayerIds : \A ch \in Chains(state, p) :
    \A b \in BuildersNear(state, p, ch[2].position) :
      LET r == simulateAction(TheRegistry, state,
                 BuilderRemoveLandAction(p, 1, b.id, ch[2].id, ch[2].position))
      IN /\ ~r.valid
         /\ {ch[1], ch[2], ch[3]} \subseteq Range(r.newState.lands)

\* GamePhase, in the order the type lists the phases
GamePhase ==
  <<"setup", "land-placement", "citadel-placement", "piece-selection", "battle",
    "finished">>

PhaseRank(ph) == CHOOSE i \in DOMAIN GamePhase : GamePhase[i] = ph

----------------------------------------------------------------------------
(* Specification SpecLog: an append-only action log that grows while the     *)
(* clock advances, and deriveState called on it from time to time.  The      *)
(* piece module has been imported; nothing has been derived yet.  An action  *)
(* is stamped with Date.now() when it is created (GameActionUtils).          *)

LogActions(ts) ==
  {JoinGameAction(p, ts, "Alice") : p \in PlayerIds}
  \cup {StartGameAction("p1", ts), PlaceLandAction("p1", ts, <<0, 0>>, "l1"),
        EndTurnAction("p1", ts), ConcedeAction("p2", ts), UnknownAction("p1", ts)}

InitLog ==
  /\ InitRegistry(registerActions(EmptyRegistry))
  /\ now = 0
  /\ state = BaseState(InitialState, 0)
  /\ accepted = TRUE
  /\ actionCount = 0
  /\ log = <<>>
  /\ derived = NoResult
  /\ prevDerived = NoResult
  /\ lastCall = NoCall
  /\ history = <<>>
  /\ theBoard = Board(<<>>, <<>>, <<>>)
  /\ search = NoSearch

AppendAction ==
  \E a \in LogActions(now) :
    /\ Len(log) < MaxLog
    /\ log' = Append(log, a)
    /\ UNCHANGED <<boardVars, regVars, now, state, accepted, actionCount, derived,
                   prevDerived, lastCall, history>>

Tick ==
  /\ now < MaxClock
  /\ now' = now + 1
  /\ UNCHANGED <<boardVars, regVars, state, accepted, actionCount, log, derived,
                 prevDerived, lastCall, history>>

\* GameStateDerivation.deriveState(initialState, actions) called now
DeriveStateCall(actions) ==
  /\ derived' = [called |-> TRUE, log |-> actions,
                 registry |-> initialize(TheRegistry),
                 state |-> deriveState(TheRegistry, now, InitialState, actions)]
  /\ prevDerived' = derived
  /\ SetRegistry(initialize(TheRegistry))

CallDeriveState ==
  /\ DeriveStateCall(log)
  /\ UNCHANGED <<boardVars, now, state, accepted, actionCount, log, lastCall, history>>

\* DerivationUtils.validateActionSequence(initialState, actions) called now
CallValidateActionSequence ==
  /\ LET r == validateActionSequence(TheRegistry, now, InitialState, log)
     IN lastCall' = [op |-> "DerivationUtils.validateActionSequence",
                     actions |-> log, now |-> now,
                     registry |-> initialize(TheRegistry),
                     valid |-> r.valid, errors |-> r.errors]
  /\ SetRegistry(initialize(TheRegistry))
  /\ UNCHANGED <<boardVars, now, state, accepted, actionCount, log, derived,
                 prevDerived, history>>

NextLog == AppendAction \/ Tick \/ CallDeriveState \/ CallValidateActionSequence

SpecLog == InitLog /\ [][NextLog]_vars

----------------------------------------------------------------------------
(* Claims about deriveState on a log (specification SpecLog) *)

\* C3: two deriveState calls with the same initial configuration and the same
\* action list (the empty list included) return deep-equal states, every field
\* included.
C3_DeriveStateDeterministic ==
  (derived.called /\ prevDerived.called /\ derived.log = prevDerived.log)
    => derived.state = prevDerived.state

IsPrefix(p, l) == Len(p) <= Len(l) /\ SubSeq(l, 1, Len(p)) = p

\* C4: for a log A of length n and 0 <= k <= n, left-folding applyAction over
\* A[k..n] from the state deriveState returned for A[0..k] gives the state
\* deriveState returns for A[0..n].
C4_ReplayMonotonic ==
  (derived.called /\ prevDerived.called /\ IsPrefix(prevDerived.log, derived.log))
    => foldActions(derived.registry, prevDerived.state,
                   SubSeq(derived.log, Len(prevDerived.log) + 1, Len(derived.log)))
       = derived.state

RemoveAt(l, i) == SubSeq(l, 1, i - 1) \o SubSeq(l, i + 1, Len(l))

EqualExceptUpdatedAt(s, t) == [s EXCEPT !.updatedAt = 0] = [t EXCEPT !.updatedAt = 0]

\* C5: a log with one action of a kind that has no registered handler, at any
\* position, derives (without an error) the state of the log without that
\* action, in every field except updatedAt.
C5_UnknownKindIgnored ==
  derived.called =>
    \A i \in DOMAIN derived.log :
      derived.log[i].type \notin DOMAIN derived.registry.actionHandlers
        => EqualExceptUpdatedAt(
             derived.state,
             deriveState(derived.registry, now, InitialState,
                         RemoveAt(derived.log, i)))

\* a derived log in which a join-game that took effect follows an unknown action
C5_Witness ==
  /\ derived.called
  /\ \E i \in 1..(Len(derived.log) - 1) :
       /\ derived.log[i].type = UnknownKind
       /\ derived.log[i].type \notin DOMAIN derived.registry.actionHandlers
       /\ derived.log[i + 1].type = "join-game"
       /\ HasPlayer(derived.state, derived.log[i + 1].playerId)

----------------------------------------------------------------------------
(* Specification SpecRegistry: the registry is cleared and has definitions   *)
(* registered for CustomKind while registry and engine calls are made.  The  *)
(* piece module has been imported; the engine is not initialized yet.  In    *)
(* this specification lastCall is the call made by the latest step, and      *)
(* derived and prevDerived are the results of the latest deriveState calls   *)
(* made one right after the other.                                           *)

CustomHandlers == {"handleJoinGame", "handleConcede"}
CustomValidators == {NoValidator, "validateEndTurn"}

CallActions ==
  {JoinGameAction("p1", ts, "Alice") : ts \in Timestamps}
  \cup {ConcedeAction("p2", ts) : ts \in Timestamps}
  \cup {CustomAction(p, ts) : p \in PlayerIds, ts \in Timestamps}
  \cup {UnknownAction("p1", ts) : ts \in Timestamps}

\* the states the calls are made on: the zero-action state, and the state in
\* which p1 has joined and holds the turn
CallStates ==
  {BaseState(InitialState, 0),
   [handleJoinGame(BaseState(InitialState, 0), JoinGameAction("p1", 0, "Alice"))
      EXCEPT !.currentPlayerId = "p1", !.phase = "land-placement"]}

CallLogs ==
  {<<>>} \cup {<<JoinGameAction(p, ts, "Alice")>> : p \in PlayerIds, ts \in Timestamps}

InitRegistrySpec ==
  /\ InitRegistry(registerActions(EmptyRegistry))
  /\ now = 0
  /\ state = BaseState(InitialState, 0)
  /\ accepted = TRUE
  /\ actionCount = 0
  /\ log = <<>>
  /\ derived = NoResult
  /\ prevDerived = NoResult
  /\ lastCall = NoCall
  /\ history = <<>>
  /\ theBoard = Board(<<>>, <<>>, <<>>)
  /\ search = NoSearch

sessionVars == <<now, state, accepted, actionCount, log, theBoard, search>>

ForgetResults ==
  /\ derived' = NoResult
  /\ prevDerived' = NoResult

ForgetCalls ==
  /\ lastCall' = NoCall
  /\ ForgetResults

\* ActionRegistry.clear()
Clear ==
  /\ SetRegistry(clear(TheRegistry))
  /\ history' = <<>>
  /\ ForgetCalls
  /\ UNCHANGED sessionVars

\* ActionRegistry.registerAction({type: CustomKind, handler, validator})
Register ==
  \E h \in CustomHandlers, v \in CustomValidators :
    /\ Len(history) < MaxRegistrations
    /\ SetRegistry(registerAction(TheRegistry, Definition(CustomKind, h, v)))
    /\ history' = Append(history, Definition(CustomKind, h, v))
    /\ ForgetCalls
    /\ UNCHANGED sessionVars

Call(op, a, s, threw, output, verdict, after) ==
  [op |-> op, action |-> a, registry |-> TheRegistry, input |-> s,
   threw |-> threw, output |-> output, verdict |-> verdict, after |-> after]

\* ActionRegistry.applyAction(s, a)
CallRegistryApply ==
  \E a \in CallActions, s \in CallStates :
    LET r == RegistryApplyAction(TheRegistry, s, a)
    IN /\ lastCall' = Call("ActionRegistry.applyAction", a, s, r.threw, r.state,
                           Undefined, TheRegistry)
       /\ ForgetResults /\ UNCHANGED <<regVars, sessionVars, history>>

\* ActionRegistry.validateAction(s, a)
CallRegistryValidate ==
  \E a \in CallActions, s \in CallStates :
    /\ lastCall' = Call("ActionRegistry.validateAction", a, s, FALSE, s,
                        RegistryValidateAction(TheRegistry, s, a), TheRegistry)
    /\ ForgetResults /\ UNCHANGED <<regVars, sessionVars, history>>

\* GameStateDerivation.applyAction(s, a)
CallApplyAction ==
  \E a \in CallActions, s \in CallStates :
    /\ lastCall' = Call("GameStateDerivation.applyAction", a, s, FALSE,
                        applyAction(TheRegistry, s, a), Undefined, TheRegistry)
    /\ ForgetResults /\ UNCHANGED <<regVars, sessionVars, history>>

\* GameStateDerivation.validateAction(s, a)
CallValidateAction ==
  \E a \in CallActions, s \in CallStates :
    /\ lastCall' = Call("GameStateDerivation.validateAction", a, s, FALSE, s,
                        validateAction(TheRegistry, s, a),
                        initialize(TheRegistry))
    /\ SetRegistry(initialize(TheRegistry))
    /\ ForgetResults /\ UNCHANGED <<sessionVars, history>>

\* GameStateDerivation.deriveState(initialState, actions)
CallDeriveStateOn ==
  \E l \in CallLogs :
    /\ DeriveStateCall(l)
    /\ lastCall' = NoCall
    /\ UNCHANGED <<sessionVars, history>>

NextRegistry ==
  \/ Clear \/ Register \/ CallRegistryApply \/ CallRegistryValidate
  \/ CallApplyAction \/ CallValidateAction \/ CallDeriveStateOn

SpecRegistry == InitRegistrySpec /\ [][NextRegistry]_vars

----------------------------------------------------------------------------
(* Claims about the registry and the engine's use of it (SpecRegistry) *)

Unregistered(call) ==
  call.action.type \notin DOMAIN call.registry.actionHandlers

\* C6 (as claimed): the registry's applyAction, called with a kind that has no
\* registered handler, returns the given state unchanged and raises no error.
C6_RegistryReturnsStateForUnknownKind ==
  (lastCall.op = "ActionRegistry.applyAction" /\ Unregistered(lastCall))
    => (~lastCall.threw /\ lastCall.output = lastCall.input)

\* C6 (amended): for a kind that has no registered handler the registry's
\* applyAction raises an error, and the derivation engine's applyAction raises
\* none and returns the given state with only updatedAt set to the action's
\* timestamp.
C6_EngineToleratesUnknownKind ==
  /\ (lastCall.op = "ActionRegistry.applyAction" /\ Unregistered(lastCall))
       => lastCall.threw
  /\ (lastCall.op = "GameStateDerivation.applyAction" /\ Unregistered(lastCall))
       => /\ ~lastCall.threw
          /\ lastCall.output =
               [lastCall.input EXCEPT !.updatedAt = lastCall.action.timestamp]

\* the engine was handed an action of an unregistered kind stamped later than
\* the state
C6_Witness ==
  /\ lastCall.op = "GameStateDerivation.applyAction"
  /\ Unregistered(lastCall)
  /\ lastCall.action.type = UnknownKind
  /\ lastCall.action.timestamp # lastCall.input.updatedAt
  /\ lastCall.output.updatedAt = lastCall.action.timestamp

PlayerIdsOf(s) == [i \in DOMAIN s.players |-> s.players[i].id]

\* C7: whatever clear(), deriveState and validateAction calls came before,
\* deriveState of a log holding one join-game action by player p returns a
\* state whose players are exactly p.
C7_CoreActionsRegisteredForEveryDerivation ==
  (derived.called /\ Len(derived.log) = 1 /\ derived.log[1].type = "join-game")
    => PlayerIdsOf(derived.state) = <<derived.log[1].playerId>>

\* C8: once a kind has been registered twice, the registry's applyAction for
\* an action of that kind returns what the most recently registered handler
\* returns.
C8_LastRegisteredHandlerIsUsed ==
  (/\ lastCall.op = "ActionRegistry.applyAction"
   /\ lastCall.action.type = CustomKind
   /\ Len(history) >= 2)
    => /\ ~lastCall.threw
       /\ lastCall.output =
            CallHandler(history[Len(history)].handler, lastCall.input,
                        lastCall.action)

\* CustomKind was registered twice with different handlers and then applied to
\* a state on which the two handlers differ
C8_Witness ==
  /\ lastCall.op = "ActionRegistry.applyAction"
  /\ lastCall.action.type = CustomKind
  /\ Len(history) >= 2
  /\ history[Len(history) - 1].handler # history[Len(history)].handler
  /\ lastCall.output # CallHandler(history[Len(history) - 1].handler,
                                   lastCall.input, lastCall.action)
  /\ lastCall.output # lastCall.input

\* C9: after a kind was registered with a validator and then registered again
\* without one, the registry's validateAction returns true for every state and
\* action of that kind.
C9_ReRegistrationDropsValidator ==
  (/\ lastCall.op = "ActionRegistry.validateAction"
   /\ lastCall.action.type = CustomKind
   /\ Len(history) >= 2
   /\ history[Len(history) - 1].validator # NoValidator
   /\ history[Len(history)].validator = NoValidator)
    => lastCall.verdict = True

SameContents(R, Q) ==
  /\ R.actionDefinitions = Q.actionDefinitions
  /\ R.actionHandlers = Q.actionHandlers
  /\ R.actionValidators = Q.actionValidators

\* C10: GameStateDerivation.validateAction leaves the state and the contents
\* of the registry unchanged, gives the same verdict when called again with
\* the same state and action, and changes the result of no later applyAction
\* or validateAction call.
C10_ValidateActionIsPure ==
  lastCall.op = "GameStateDerivation.validateAction" =>
    /\ lastCall.output = lastCall.input
    /\ SameContents(lastCall.after, lastCall.registry)
    /\ validateAction(lastCall.after, lastCall.input, lastCall.action)
         = lastCall.verdict
    /\ \A a \in CallActions, s \in CallStates :
         /\ applyAction(lastCall.after, s, a) = applyAction(lastCall.registry, s, a)
         /\ RegistryValidateAction(lastCall.after, s, a)
              = RegistryValidateAction(lastCall.registry, s, a)

\* C11: the registry's validateAction returns true for every state and every
\* action whose kind has no validator in the registry, whether the kind is
\* registered with a handler only or not registered at all.
C11_NoValidatorMeansValid ==
  (/\ lastCall.op = "ActionRegistry.validateAction"
   /\ lastCall.action.type \notin DOMAIN lastCall.registry.actionValidators)
    => lastCall.verdict = True

\* concede, registered by the core handlers without a validator, was validated
\* for a player who does not hold the turn
C11_Witness ==
  /\ lastCall.op = "ActionRegistry.validateAction"
  /\ lastCall.action.type = "concede"
  /\ "concede" \in DOMAIN lastCall.registry.actionHandlers
  /\ "concede" \notin DOMAIN lastCall.registry.actionValidators
  /\ lastCall.input.currentPlayerId # lastCall.action.playerId
  /\ lastCall.verdict = True

----------------------------------------------------------------------------
(* Specification SpecScenario: a session of one player on the coordinates of *)
(* the placement scenario.  Each candidate action is first simulated with    *)
(* DerivationUtils.simulateAction (recorded in lastCall) and then folded     *)
(* into the state as the log replay does.                                    *)

ScenarioCoords == {<<0, 0>>, <<1, 0>>, <<0, 1>>, <<5, 5>>}
ScenarioLandId(c) ==
  CASE c = <<0, 0>> -> "l1" [] c = <<1, 0>> -> "l2" [] c = <<0, 1>> -> "l3"
    [] OTHER -> "l4"

Attempt(a) ==
  /\ actionCount < MaxActions
  /\ actionCount' = actionCount + 1
  /\ LET r == simulateAction(TheRegistry, state, a)
     IN lastCall' = Call("DerivationUtils.simulateAction", a, state, FALSE,
                         r.newState, IF r.valid THEN True ELSE r.error,
                         initialize(TheRegistry))
  /\ state' = applyAction(TheRegistry, state, a)
  /\ accepted' = (accepted /\ validateAction(TheRegistry, state, a) = True)
  /\ UNCHANGED <<boardVars, regVars, now, log, derived, prevDerived, history>>

AttemptJoinGame == Attempt(JoinGameAction("p1", 1, "Alice"))
AttemptStartGame == Attempt(StartGameAction("p1", 1))
AttemptPlaceLand ==
  \E c \in ScenarioCoords : Attempt(PlaceLandAction("p1", 1, c, ScenarioLandId(c)))
AttemptPlaceCitadel ==
  \E c \in ScenarioCoords, cid \in CitadelIds :
    Attempt(PlaceCitadelAction("p1", 1, c, cid))

NextScenario ==
  AttemptJoinGame \/ AttemptStartGame \/ AttemptPlaceLand \/ AttemptPlaceCitadel

SpecScenario == Init /\ [][NextScenario]_vars

\* the rejection reasons of the validators that speak of adjacency
AdjacencyReasons ==
  {"Can only place land adjacent to builder",
   "Builder must be adjacent to land to move it",
   "Builder must be adjacent to land to remove it"}

\* the scenario's position: p1 is the only player and owns lands at exactly
\* (0,0) and (1,0); no citadel is placed yet
ScenarioPosition(s) ==
  /\ PlayerIdsOf(s) = <<"p1">>
  /\ {l.position : l \in Range(s.lands)} = {<<0, 0>>, <<1, 0>>}
  /\ \A l \in Range(s.lands) : l.ownerId = "p1"
  /\ s.citadels = <<>>

CitadelsAt(s, c) == {k \in Range(s.citadels) : k.position = c}

\* C13: with one player who has placed lands at (0,0) and (1,0), a
\* place-citadel by that player at (0,1) succeeds and adds a citadel at (0,1),
\* and a place-citadel at (5,5) is rejected with a reason citing adjacency and
\* adds no citadel.
C13_CitadelPlacedNextToOwnLand ==
  (/\ lastCall.op = "DerivationUtils.simulateAction"
   /\ lastCall.action.type = "place-citadel"
   /\ ScenarioPosition(lastCall.input))
    => /\ lastCall.action.position = <<0, 1>>
            => /\ lastCall.verdict = True
               /\ CitadelsAt(lastCall.output, <<0, 1>>) # {}
       /\ lastCall.action.position = <<5, 5>>
            => /\ lastCall.verdict \in AdjacencyReasons
               /\ lastCall.output.citadels = <<>>

----------------------------------------------------------------------------
(* Specification SpecBoard: a caller builds a Board from arrays of lands and *)
(* pieces and calls one board function on it.  search holds the call: its    *)
(* arguments while it is pending and its result once it has returned.        *)

\* the cells of the small boards, in the order their entities are listed
GridOrder == << <<0, 0>>, <<1, 0>>, <<2, 0>>, <<0, 1>>, <<1, 1>>, <<2, 1>> >>
Grid == Range(GridOrder)

\* what a cell holds: nothing, a land of p1 or p2, a turtle of p1, a land of p1
\* with a builder standing on it, a land of p1 with a turtle of p1 on it
PlainKinds == {"water", "land1"}
SpecialKinds == {"land2", "turtle1", "occupied", "both"}

\* the layouts with at most one special cell
Layouts ==
  LET plain == [DOMAIN GridOrder -> PlainKinds]
  IN plain \cup {[f EXCEPT ![i] = k] : f \in plain, i \in DOMAIN GridOrder,
                                        k \in SpecialKinds}

LandOf(id, c, ownerId) == [id |-> id, position |-> c, ownerId |-> ownerId]
PieceOf(id, type, c, ownerId) ==
  [id |-> id, type |-> type, ownerId |-> ownerId, position |-> c]

LayoutLands(f) ==
  LET all == [i \in DOMAIN GridOrder |->
                LandOf(ToString(i), GridOrder[i],
                       IF f[i] = "land2" THEN "p2" ELSE "p1")]
  IN Filter(all, {all[i] : i \in {j \in DOMAIN GridOrder :
                                     f[j] \in {"land1", "land2", "occupied", "both"}}})

LayoutPieces(f) ==
  LET all == [i \in DOMAIN GridOrder |->
                PieceOf(ToString(i),
                        IF f[i] = "occupied" THEN "builder" ELSE "turtle",
                        GridOrder[i], "p1")]
  IN Filter(all, {all[i] : i \in {j \in DOMAIN GridOrder :
                                     f[j] \in {"turtle1", "occupied", "both"}}})

SmallBoards == {Board(LayoutLands(f), LayoutPieces(f), <<>>) : f \in Layouts}

\* a 3x3 ring of lands around the cell (1,1), complete or with one tile missing
RingCenter == <<1, 1>>
RingOrder ==
  << <<0, 0>>, <<1, 0>>, <<2, 0>>, <<0, 1>>, <<2, 1>>, <<0, 2>>, <<1, 2>>, <<2, 2>> >>
RingLands(missing) ==
  LET all == [i \in DOMAIN RingOrder |-> LandOf(ToString(i), RingOrder[i], "p1")]
  IN Filter(all, {all[i] : i \in {j \in DOMAIN RingOrder : RingOrder[j] \notin missing}})
RingBoards ==
  {Board(RingLands(missing), <<>>, <<>>) :
     missing \in {{}} \cup {{c} : c \in Range(RingOrder)}}

\* a straight chain of lands of p1, one land longer than a search of
\* DefaultMaxDistance steps from its first land covers
\* the maxDistance given to the searches that accept every coordinate
MaxSearchDistance == 2

ChainLength == DefaultMaxDistance + 2
ChainBoard ==
  Board([i \in 1..ChainLength |-> LandOf(ToString(i), <<i - 1, 0>>, "p1")],
        <<>>, <<>>)

Pending(op, args) ==
  [op |-> op, args |-> args, status |-> "called", result |-> Undefined]
Returned(call, result) ==
  [call EXCEPT !.status = "returned", !.result = result]

PathOptions ==
  {DefaultOptions,
   PathfindingOptions(2, FALSE, "default", TRUE),
   PathfindingOptions(DefaultMaxDistance, TRUE, "default", FALSE),
   PathfindingOptions(DefaultMaxDistance, FALSE, "ignoreOccupancy", FALSE),
   PathfindingOptions(2, FALSE, "acceptAll", TRUE)}

PathStarts == {<<0, 0>>}
CitadelCoords == {<<0, 1>>, <<1, 2>>, <<3, 0>>, <<5, 5>>}
SearchWindows ==
  {NoBoundingBox, BoundingBox(<<0, 0>>, <<2, 2>>), BoundingBox(<<1, 1>>, <<3, 3>>)}

ConnectedCalls ==
  {Pending("arePlayerFoundationsConnected", [playerId |-> p]) : p \in PlayerIds}
CitadelCalls ==
  {Pending("isCitadelConnected", [citadelCoord |-> c, playerId |-> p]) :
     c \in CitadelCoords, p \in PlayerIds}
PathCalls(starts, goals, options) ==
  {Pending("findPath", [start |-> a, goal |-> b, options |-> o]) :
     a \in starts, b \in goals, o \in options}
ReachableCalls(starts) ==
  {Pending("findReachableArea", [start |-> a]) : a \in starts}
WaterCalls ==
  {Pending("findWaterAreas", [boundingBox |-> w]) : w \in SearchWindows}

SmallCalls ==
  ConnectedCalls \cup CitadelCalls \cup PathCalls(PathStarts, Grid, PathOptions)
  \cup ReachableCalls(PathStarts) \cup WaterCalls
RingCalls == ConnectedCalls \cup WaterCalls
ChainCalls == ConnectedCalls \cup CitadelCalls

InitBoard ==
  /\ InitRegistry(registerActions(EmptyRegistry))
  /\ now = 0
  /\ state = BaseState(InitialState, 0)
  /\ accepted = TRUE
  /\ actionCount = 0
  /\ log = <<>>
  /\ derived = NoResult
  /\ prevDerived = NoResult
  /\ lastCall = NoCall
  /\ history = <<>>
  /\ \/ theBoard \in SmallBoards /\ search \in SmallCalls
     \/ theBoard \in RingBoards /\ search \in RingCalls
     \/ theBoard = ChainBoard /\ search \in ChainCalls

gameVars == <<regVars, now, state, accepted, actionCount, log, derived,
              prevDerived, lastCall, history>>

Return(op, result) ==
  /\ search.op = op
  /\ search.status = "called"
  /\ search' = Returned(search, result)
  /\ UNCHANGED <<theBoard, gameVars>>

CallArePlayerFoundationsConnected ==
  Return("arePlayerFoundationsConnected",
         arePlayerFoundationsConnected(search.args.playerId, theBoard))

CallIsCitadelConnected ==
  Return("isCitadelConnected",
         isCitadelConnected(search.args.citadelCoord, search.args.playerId,
                            theBoard))

CallFindPath ==
  Return("findPath",
         findPath(search.args.start, search.args.goal, theBoard,
                  search.args.options))

\* findReachableArea(start, board) with no options
CallFindReachableArea ==
  Return("findReachableArea",
         findReachableArea(search.args.start, theBoard,
                           {c \in BoardCoords(theBoard) :
                              IsValidMove("foundation", c, c, theBoard)}))

CallFindWaterAreas ==
  Return("findWaterAreas", findWaterAreas(theBoard, search.args.boundingBox))

NextBoard ==
  \/ CallArePlayerFoundationsConnected \/ CallIsCitadelConnected
  \/ CallFindPath \/ CallFindReachableArea \/ CallFindWaterAreas

SpecBoard == InitBoard /\ [][NextBoard]_vars

----------------------------------------------------------------------------
(* The Board and its layer queries (specification SpecLayers): a Board is  *)
(* built from arrays of lands, pieces and citadels, then asked about a      *)
(* coordinate.  search.args keeps the arrays the board was built from.      *)

LayerCoords == {<<0, 0>>, <<1, 0>>}
CitadelOf(id, c, ownerId) == [id |-> id, position |-> c, ownerId |-> ownerId]

\* arrays of at most two lands, two pieces (a turtle or a builder each, the
\* second possibly off the board) and two citadels
LayerLands ==
  {<<>>} \cup {<<LandOf("l1", c, "p1")>> : c \in LayerCoords}
  \cup {<<LandOf("l1", c, "p1"), LandOf("l2", d, "p2")>> : c, d \in LayerCoords}
LayerPieces ==
  {<<>>}
  \cup {<<PieceOf("x1", t, c, "p1")>> : t \in {"turtle", "builder"}, c \in LayerCoords}
  \cup {<<PieceOf("x1", t, c, "p1"), PieceOf("x2", u, d, "p2")>> :
          t \in {"turtle", "builder"}, c \in LayerCoords,
          u \in {"turtle", "builder"}, d \in LayerCoords \cup {NullPos}}
LayerCitadels ==
  {<<>>} \cup {<<CitadelOf("c1", c, "p1")>> : c \in LayerCoords}
  \cup {<<CitadelOf("c1", c, "p1"), CitadelOf("c2", d, "p2")>> : c, d \in LayerCoords}

InitLayers ==
  /\ InitRegistry(registerActions(EmptyRegistry))
  /\ now = 0
  /\ state = BaseState(InitialState, 0)
  /\ accepted = TRUE
  /\ actionCount = 0
  /\ log = <<>>
  /\ derived = NoResult
  /\ prevDerived = NoResult
  /\ lastCall = NoCall
  /\ history = <<>>
  /\ theBoard = Board(<<>>, <<>>, <<>>)
  /\ \E lands \in LayerLands, pieces \in LayerPieces, citadels \in LayerCitadels :
       search = Pending("updateBoard",
                        [lands |-> lands, pieces |-> pieces, citadels |-> citadels,
                         coordinate |-> NullPos])

\* new Board(lands, pieces, citadels): updateBoard has no throw statement
UpdateBoard ==
  /\ search.op = "updateBoard" /\ search.status = "called"
  /\ theBoard' = Board(search.args.lands, search.args.pieces, search.args.citadels)
  /\ search' = Returned(search, Undefined)
  /\ UNCHANGED gameVars

\* a query of the board just built, at one of the coordinates
Query(op, coordinate, result) ==
  /\ search.op = "updateBoard" /\ search.status = "returned"
  /\ search' = [op |-> op, args |-> [search.args EXCEPT !.coordinate = coordinate],
                status |-> "returned", result |-> result]
  /\ UNCHANGED <<theBoard, gameVars>>

GetTileInfo == \E c \in LayerCoords : Query("getTileInfo", c, getTileInfo(theBoard, c))
CallHasFoundation ==
  \E c \in LayerCoords : Query("hasFoundation", c, hasFoundation(theBoard, c))
CallIsWater == \E c \in LayerCoords : Query("isWater", c, isWater(theBoard, c))
CallCanPlacePiece ==
  \E c \in LayerCoords : Query("canPlacePiece", c, canPlacePiece(theBoard, c))

NextLayers ==
  \/ UpdateBoard \/ GetTileInfo \/ CallHasFoundation \/ CallIsWater
  \/ CallCanPlacePiece

SpecLayers == InitLayers /\ [][NextLayers]_vars

----------------------------------------------------------------------------
(* The searches one loop iteration at a time (specification SpecSearch):   *)
(* search.loop holds the local variables of the running function.          *)

\* a queue.shift() that leaves the head in the queue
shift_keepsHead(queue) == queue
\* queue.shift(): the queue without its head
shift(queue) == Tail(queue)

\* findReachableArea before its while loop: the queue holds {coord, distance}
ReachableStart(start) ==
  [queue |-> << <<start, 0>> >>, visited |-> {start}, reachable |-> {}]

\* one iteration of the while loop of findReachableArea
ReachableStep(lp, board, options) ==
  LET current == Head(lp.queue)[1]
      distance == Head(lp.queue)[2]
      neighbors == Neighbors(current, options.allowDiagonal)
      fresh == Filter(neighbors,
                      {n \in Range(neighbors) :
                         /\ n \notin lp.visited
                         /\ IsValidMove(options.isValidMove, current, n, board)})
  IN IF distance >= options.maxDistance
     THEN [lp EXCEPT !.queue = shift(@), !.reachable = @ \cup {current}]
     ELSE [queue |-> shift(lp.queue) \o [i \in DOMAIN fresh |-> <<fresh[i], distance + 1>>],
           visited |-> lp.visited \cup Range(fresh),
           reachable |-> lp.reachable \cup {current}]

\* findConnectedWater before its while loop
WaterStart(start) == [queue |-> <<start>>, visited |-> {start}, connected |-> {}]

\* one iteration of the while loop of findConnectedWater
WaterStep(lp, board, boundingBox) ==
  LET current == Head(lp.queue)
      neighbors == getOrthogonalAdjacent(current)
      fresh == Filter(neighbors,
                      {n \in Range(neighbors) :
                         /\ n \notin lp.visited
                         /\ WithinBounds(n, boundingBox)
                         /\ isWater(board, n)})
  IN [queue |-> shift(lp.queue) \o fresh,
      visited |-> lp.visited \cup Range(fresh),
      connected |-> lp.connected \cup {current}]

\* Board.getCoordinatesInArea in the order of its two for loops: x, then y
CoordinatesInOrder(topLeft, bottomRight) ==
  LET width == bottomRight[1] - topLeft[1] + 1
      height == bottomRight[2] - topLeft[2] + 1
  IN IF width <= 0 \/ height <= 0 THEN <<>>
     ELSE [k \in 1..(width * height) |->
             <<topLeft[1] + ((k - 1) \div height), topLeft[2] + ((k - 1) % height)>>]

\* findWaterAreas before its for loop; fill holds the findConnectedWater call
\* the loop body is waiting for, filling tells whether there is one
WaterAreasStart(board, boundingBox) ==
  LET searchArea == SearchArea(board, boundingBox)
      allCoords == CoordinatesInOrder(searchArea.topLeft, searchArea.bottomRight)
  IN [searchArea |-> searchArea,
      waterCoords |-> Filter(allCoords, {c \in Range(allCoords) : isWater(board, c)}),
      visited |-> {}, waterAreas |-> {},
      filling |-> FALSE, fill |-> WaterStart(<<>>)]

\* one step of findWaterAreas: the next coordinate of the for loop, one
\* iteration of the flood fill it started, or the area that fill found
WaterAreasStep(lp, board) ==
  IF lp.filling /\ lp.fill.queue # <<>>
  THEN [lp EXCEPT !.fill = WaterStep(@, board, lp.searchArea)]
  ELSE IF lp.filling
  THEN LET areaCoords == lp.fill.connected
       IN [lp EXCEPT
             !.filling = FALSE,
             !.visited = @ \cup areaCoords,
             !.waterAreas = @ \cup
               {[coordinates |-> areaCoords,
                 perimeter |-> getWaterPerimeter(areaCoords, board),
                 size |-> Cardinality(areaCoords),
                 isEnclosed |-> isWaterAreaEnclosed(areaCoords, board, lp.searchArea)]}]
  ELSE LET coord == Head(lp.waterCoords)
       IN IF coord \in lp.visited
          THEN [lp EXCEPT !.waterCoords = Tail(@)]
          ELSE [lp EXCEPT !.waterCoords = Tail(@), !.filling = TRUE,
                          !.fill = WaterStart(coord)]

\* the call before its first statement, while its loop runs with the local
\* variables loop, and once it has returned
Called(call) == [op |-> call.op, args |-> call.args, status |-> "called"]
Running(call, loop) ==
  [op |-> call.op, args |-> call.args, status |-> "running", loop |-> loop]
Returns(call, result) == Returned(Pending(call.op, call.args), result)

\* boards of plain water and land cells, and the complete ring
SearchBoards ==
  {Board(LayoutLands(f), LayoutPieces(f), <<>>) : f \in [DOMAIN GridOrder -> PlainKinds]}
  \cup {Board(RingLands({}), <<>>, <<>>)}

AcceptAllOptions ==
  {PathfindingOptions(MaxSearchDistance, FALSE, "acceptAll", TRUE),
   PathfindingOptions(MaxSearchDistance, TRUE, "acceptAll", TRUE)}

SearchCalls ==
  PathCalls({<<0, 0>>}, {<<1, 0>>, <<2, 1>>}, {DefaultOptions} \cup AcceptAllOptions)
  \cup {Pending("findReachableArea", [start |-> <<0, 0>>, options |-> o]) :
          o \in {PathfindingOptions(DefaultMaxDistance, FALSE, "foundation", TRUE)}
                \cup AcceptAllOptions}
  \cup WaterCalls
  \cup {Pending("findConnectedWater", [start |-> a, boundingBox |-> w]) :
          a \in {<<0, 0>>, <<1, 1>>},
          w \in {BoundingBox(<<0, 0>>, <<2, 2>>), BoundingBox(<<-1, -1>>, <<3, 3>>)}}

InitSearch ==
  /\ InitRegistry(registerActions(EmptyRegistry))
  /\ now = 0
  /\ state = BaseState(InitialState, 0)
  /\ accepted = TRUE
  /\ actionCount = 0
  /\ log = <<>>
  /\ derived = NoResult
  /\ prevDerived = NoResult
  /\ lastCall = NoCall
  /\ history = <<>>
  /\ theBoard \in SearchBoards
  /\ search \in {Called(call) : call \in SearchCalls}

\* a step of a call of op: from, to are the states of search
SearchStep(op, status, next) ==
  /\ search.op = op
  /\ search.status = status
  /\ search' = next
  /\ UNCHANGED <<theBoard, gameVars>>

BeginFindPath ==
  LET a == search.args
  IN SearchStep("findPath", "called",
       IF FindPathExitsEarly(a.start, a.goal, theBoard)
       THEN Returns(search, FindPathEarlyResult(a.start, a.goal, theBoard, a.options))
       ELSE Running(search, [done |-> FALSE, st |-> AStarStart(a.start, a.goal),
                             closed |-> {}]))

StepFindPath ==
  /\ search.op = "findPath" /\ search.status = "running"
  /\ \E step \in {AStarStep(search.loop.st, search.loop.closed, search.args.goal,
                            theBoard, search.args.options)} :
       SearchStep("findPath", "running",
         IF step.done THEN Returns(search, step.result) ELSE Running(search, step))

BeginFindReachableArea ==
  SearchStep("findReachableArea", "called",
    IF ~hasFoundation(theBoard, search.args.start) THEN Returns(search, {})
    ELSE Running(search, ReachableStart(search.args.start)))

StepFindReachableArea ==
  LET lp == search.loop
  IN SearchStep("findReachableArea", "running",
       IF lp.queue = <<>> THEN Returns(search, lp.reachable)
       ELSE Running(search, ReachableStep(lp, theBoard, search.args.options)))

BeginFindConnectedWater ==
  SearchStep("findConnectedWater", "called",
    IF ~isWater(theBoard, search.args.start) THEN Returns(search, {})
    ELSE Running(search, WaterStart(search.args.start)))

StepFindConnectedWater ==
  LET lp == search.loop
  IN SearchStep("findConnectedWater", "running",
       IF lp.queue = <<>> THEN Returns(search, lp.connected)
       ELSE Running(search, WaterStep(lp, theBoard, search.args.boundingBox)))

BeginFindWaterAreas ==
  SearchStep("findWaterAreas", "called",
    Running(search, WaterAreasStart(theBoard, search.args.boundingBox)))

StepFindWaterAreas ==
  LET lp == search.loop
  IN SearchStep("findWaterAreas", "running",
       IF ~lp.filling /\ lp.waterCoords = <<>> THEN Returns(search, lp.waterAreas)
       ELSE Running(search, WaterAreasStep(lp, theBoard)))

NextSearch ==
  \/ BeginFindPath \/ StepFindPath
  \/ BeginFindReachableArea \/ StepFindReachableArea
  \/ BeginFindConnectedWater \/ StepFindConnectedWater
  \/ BeginFindWaterAreas \/ StepFindWaterAreas

SpecSearch == InitSearch /\ [][NextSearch]_vars

\* a called function keeps executing: its next iteration is always taken
SpecSearchFair == SpecSearch /\ WF_vars(NextSearch)

----------------------------------------------------------------------------
(* Claims about the board functions (specification SpecBoard) *)

\* the coordinates holding a land or a turtle of the player
OwnCoordinates(playerId, b) ==
  {e.position : e \in {l \in Range(b.landMap) : l.ownerId = playerId}
                      \cup {t \in Range(b.turtleMap) : t.ownerId = playerId}}

\* the coordinates of F reachable from S by orthogonal steps that stay in F
RECURSIVE StepsWithin(_, _)
StepsWithin(S, F) ==
  LET Grow(T) == {n \in F : n \in T \/ \E c \in T : OrthogonalAdjacent(c, n)}
      grown == Grow(Grow(Grow(Grow(S))))
  IN IF grown = S THEN S ELSE StepsWithin(grown, F)

\* every coordinate of F is reachable from one of them within F
AllConnected(F) == F = {} \/ \E c \in F : StepsWithin({c}, F) = F

\* C14: arePlayerFoundationsConnected(playerId, board) returns true if the
\* player owns at most one foundation coordinate, and otherwise returns true
\* exactly when every coordinate holding that player's land or turtle is
\* reachable from one of them by orthogonal steps within the player's own
\* foundation coordinates.
C14_FoundationsConnectedIffReachable ==
  (search.op = "arePlayerFoundationsConnected" /\ search.status = "returned")
    => LET F == OwnCoordinates(search.args.playerId, theBoard)
       IN search.result = (Cardinality(F) <= 1 \/ AllConnected(F))

\* C15: isCitadelConnected(coord, playerId, board) returns true exactly when
\* coord is orthogonally adjacent to a coordinate holding a land or turtle of
\* playerId and that player's foundation coordinates are all connected.
C15_CitadelConnectedIffAdjacentAndConnected ==
  (search.op = "isCitadelConnected" /\ search.status = "returned")
    => LET F == OwnCoordinates(search.args.playerId, theBoard)
       IN search.result =
            /\ \E c \in F : OrthogonalAdjacent(search.args.citadelCoord, c)
            /\ AllConnected(F)

\* one allowed step: orthogonal, or also diagonal when allowDiagonal is set
AllowedStep(from, to, allowDiagonal) ==
  LET dx == Abs(from[1] - to[1])
      dy == Abs(from[2] - to[2])
  IN IF allowDiagonal THEN dx <= 1 /\ dy <= 1 /\ dx + dy > 0 ELSE dx + dy = 1

\* the traversal predicates the calls pass, stated on the board's entities
Traversable(name, to, b) ==
  LET foundation == \E e \in Range(b.landMap) \cup Range(b.turtleMap) : e.position = to
      occupied == \E e \in Range(b.pieceMap) : e.position = to
  IN CASE name = "default" -> foundation /\ ~occupied
       [] name = "foundation" -> foundation
       [] name = "ignoreOccupancy" -> foundation
       [] name = "acceptAll" -> TRUE

\* every consecutive pair of walk is an allowed step onto a traversable coordinate
SoundWalk(walk, options, b) ==
  \A i \in 1..(Len(walk) - 1) :
    /\ AllowedStep(walk[i], walk[i + 1], options.allowDiagonal)
    /\ Traversable(options.isValidMove, walk[i + 1], b)

FoundPath == search.op = "findPath" /\ search.status = "returned" /\ search.result.found

\* C16 as stated: whenever findPath returns found=true, every consecutive pair
\* of path is one allowed step apart and satisfies isValidMove, the path ends
\* at goal and, when includeStart is true, begins at start.
C16_PathSoundEndsAtGoal ==
  FoundPath =>
    LET path == search.result.path
        options == search.args.options
    IN /\ SoundWalk(path, options, theBoard)
       /\ Len(path) > 0 /\ path[Len(path)] = search.args.goal
       /\ options.includeStart => path[1] = search.args.start

\* C16 amended: whenever findPath returns found=true, the walk made of start
\* followed by the steps taken is sound and ends at goal; path is that walk
\* when includeStart is true and that walk without its first coordinate (so
\* the empty path when start = goal) when includeStart is false.
C16_PathSound ==
  FoundPath =>
    LET path == search.result.path
        options == search.args.options
        walk == IF options.includeStart THEN path ELSE <<search.args.start>> \o path
    IN /\ SoundWalk(walk, options, theBoard)
       /\ walk[1] = search.args.start
       /\ walk[Len(walk)] = search.args.goal

\* a path found around an obstacle, and one returned without its start
C16_Witness ==
  /\ FoundPath
  /\ ~search.args.options.includeStart
  /\ ~search.args.options.allowDiagonal
  /\ Len(search.result.path) > manhattanDistance(search.args.start, search.args.goal)

\* the coordinates reached from S by at most k orthogonal steps that enter
\* coordinates of F only
RECURSIVE WithinSteps(_, _, _)
WithinSteps(S, F, k) ==
  LET grown == S \cup {n \in F : \E c \in S : OrthogonalAdjacent(c, n)}
  IN IF k = 0 \/ grown = S THEN S ELSE WithinSteps(grown, F, k - 1)

FoundationCoordinates(b) ==
  {e.position : e \in Range(b.landMap) \cup Range(b.turtleMap)}
OccupiedCoordinates(b) == {e.position : e \in Range(b.pieceMap)}

\* a returned findPath call with the default predicate and orthogonal steps
DefaultPathReturned ==
  /\ search.op = "findPath" /\ search.status = "returned"
  /\ search.args.options.isValidMove = "default"
  /\ ~search.args.options.allowDiagonal

\* C17: with default options findPath(start, goal, board) returns found=true
\* exactly when start and goal have foundation and at most maxDistance
\* orthogonal steps lead from start to goal, every coordinate entered having
\* foundation and being unoccupied; otherwise found=false with an empty path.
C17_FoundIffWalkable ==
  DefaultPathReturned =>
    LET F == FoundationCoordinates(theBoard)
        free == F \ OccupiedCoordinates(theBoard)
        walkable == /\ search.args.start \in F
                    /\ search.args.goal \in F
                    /\ search.args.goal \in
                         WithinSteps({search.args.start}, free,
                                     search.args.options.maxDistance)
    IN /\ search.result.found = walkable
       /\ ~walkable => search.result.path = <<>>

\* a path found with the default options that goes around an obstacle
C17_Witness ==
  /\ DefaultPathReturned
  /\ search.args.options = DefaultOptions
  /\ search.result.found
  /\ Len(search.result.path)
       > manhattanDistance(search.args.start, search.args.goal) + 1

\* C18: with default options a coordinate c is in findReachableArea(start,
\* board) exactly when findPath(start, c, board) reports found=true.
C18_ReachableIffPathFound ==
  (search.op = "findReachableArea" /\ search.status = "returned")
    => \A c \in BoardCoords(theBoard) \cup search.result :
         (c \in search.result)
           = findPath(search.args.start, c, theBoard, DefaultOptions).found

\* the edge tiles of the ring: those orthogonally adjacent to its centre
RingEdges == {c \in Range(RingOrder) : OrthogonalAdjacent(c, RingCenter)}

\* a returned findWaterAreas call on a board whose lands are the ring without
\* the tiles of missing, searched in a window that contains the whole ring
RingSearched(missing) ==
  /\ search.op = "findWaterAreas" /\ search.status = "returned"
  /\ FoundationCoordinates(theBoard) = Range(RingOrder) \ missing
  /\ LET window == search.args.boundingBox
     IN \/ window = NoBoundingBox
        \/ \A c \in Range(RingOrder) :
             /\ window.topLeft[1] <= c[1] /\ c[1] <= window.bottomRight[1]
             /\ window.topLeft[2] <= c[2] /\ c[2] <= window.bottomRight[2]

\* the reported areas that contain the centre of the ring
CenterAreas == {area \in search.result : RingCenter \in area.coordinates}

\* C20: a single water cell surrounded by a 3x3 ring of eight land tiles forms
\* a water area reported with isEnclosed=true; with one edge tile of the ring
\* missing, the area containing that cell is reported with isEnclosed=false.
C20_RingEnclosure ==
  /\ RingSearched({}) =>
       /\ CenterAreas # {}
       /\ \A area \in CenterAreas :
            area.isEnclosed /\ area.coordinates = {RingCenter} /\ area.size = 1
  /\ \A e \in RingEdges :
       RingSearched({e}) =>
         /\ CenterAreas # {}
         /\ \A area \in CenterAreas : ~area.isEnclosed /\ e \in area.coordinates

\* the complete ring searched with the default window: the centre is enclosed
C20_Witness ==
  /\ RingSearched({})
  /\ search.args.boundingBox = NoBoundingBox
  /\ \E area \in search.result : RingCenter \in area.coordinates /\ area.isEnclosed

----------------------------------------------------------------------------
(* Claims about the running searches (specification SpecSearchFair) *)

\* C19: findPath, findReachableArea and the water-area flood fill
\* (findWaterAreas, findConnectedWater) terminate for every finite board and
\* every finite maxDistance or search window, also when isValidMove accepts
\* every coordinate of the unbounded grid: every call returns.
C19_SearchesTerminate == <>(search.status = "returned")

\* a flood fill whose isValidMove accepts every coordinate has returned,
\* having left the coordinates of the board
C19_Witness ==
  /\ search.op = "findReachableArea" /\ search.status = "returned"
  /\ search.args.options.isValidMove = "acceptAll"
  /\ \E c \in search.result : ~hasFoundation(theBoard, c)

----------------------------------------------------------------------------
(* Claims about the Board's layers (specification SpecLayers) *)

\* the entities of the arrays the board was built from, layer by layer
GivenLands == Range(search.args.lands)
GivenTurtles ==
  {p \in Range(search.args.pieces) : p.position # NullPos /\ p.type = "turtle"}
GivenOccupants ==
  {p \in Range(search.args.pieces) : p.position # NullPos /\ p.type # "turtle"}
GivenCitadels == Range(search.args.citadels)

\* two entities of the layer stand on the same coordinate
Collides(layer) == \E e, f \in layer : e # f /\ e.position = f.position

\* C21: putting a second entity into an already-occupied layer at the same
\* coordinate (two lands, two occupant pieces, two turtles or two citadels)
\* is refused as IllegalPlacement; the Board never keeps one entity and
\* silently drops the other.
C21_DoublePlacementRefused ==
  (search.op = "updateBoard" /\ search.status # "called") =>
    IF Collides(GivenLands) \/ Collides(GivenTurtles)
       \/ Collides(GivenOccupants) \/ Collides(GivenCitadels)
    THEN search.status = "thrown"
    ELSE /\ Range(theBoard.landMap) = GivenLands
         /\ Range(theBoard.turtleMap) = GivenTurtles
         /\ Range(theBoard.pieceMap) = GivenOccupants
         /\ Range(theBoard.citadelMap) = GivenCitadels

\* a returned query of the board at search.args.coordinate
Queried(op) == search.op = op /\ search.status = "returned"
At(layer) == {e \in layer : e.position = search.args.coordinate}
FoundationGiven == At(GivenLands) # {} \/ At(GivenTurtles) # {}

\* C22: the layers are answered independently and consistently: a turtle and
\* a non-turtle piece at the same coordinate are both reported, hasFoundation
\* is true exactly when a land or a turtle is present, isWater is the negation
\* of hasFoundation, and canPlacePiece is true exactly when hasFoundation
\* holds and no occupant piece is present.
C22_LayersIndependent ==
  /\ Queried("getTileInfo") =>
       /\ search.result.turtle \subseteq At(GivenTurtles)
       /\ search.result.piece \subseteq At(GivenOccupants)
       /\ (search.result.turtle # {}) = (At(GivenTurtles) # {})
       /\ (search.result.piece # {}) = (At(GivenOccupants) # {})
       /\ search.result.hasTurtle = (At(GivenTurtles) # {})
       /\ search.result.isOccupied = (At(GivenOccupants) # {})
       /\ search.result.hasFoundation = FoundationGiven
       /\ search.result.isWater = ~FoundationGiven
       /\ search.result.canPlacePiece = (FoundationGiven /\ At(GivenOccupants) = {})
  /\ Queried("hasFoundation") => search.result = FoundationGiven
  /\ Queried("isWater") => search.result = ~FoundationGiven
  /\ Queried("canPlacePiece") =>
       search.result = (FoundationGiven /\ At(GivenOccupants) = {})

\* a turtle and a builder on the same coordinate, both reported by getTileInfo
C22_Witness ==
  /\ Queried("getTileInfo")
  /\ search.result.turtle # {} /\ search.result.piece # {}
  /\ search.result.land = {}
  /\ search.result.hasFoundation /\ ~search.result.canPlacePiece

----------------------------------------------------------------------------
(* Claims about the lands of a derived state (specification Spec) *)

\* no two entries of the sequence stand on the same coordinate
Apart(seq) ==
  \A i, j \in DOMAIN seq : i # j => seq[i].position # seq[j].position

\* C23: in every state derived by deriveState from any log of core and
\* builder action kinds, no two lands occupy the same coordinate.
C23_OneLandPerCoordinate == Apart(state.lands)

----------------------------------------------------------------------------
(* Specification SpecPosition: a client tries actions on a given position.   *)
(* Each action is simulated with DerivationUtils.simulateAction (recorded in *)
(* lastCall) and folded into the state by applyAction, whatever the verdict. *)

MaxTries == 2        \* actions tried on one position
TryPieceIds == {"b1", "b2"}
TryCoords == {<<0, 0>>, <<1, 0>>}
TryTimestamps == {1, 2}

\* the replay of a log on a position, with the core and builder kinds registered
Replay(s, actions) ==
  foldActions(initialize(registerActions(EmptyRegistry)), s, actions)

Lobby == BaseState(InitialState, 0)
Joined ==
  Replay(Lobby, <<JoinGameAction("p1", 0, "Alice"), JoinGameAction("p2", 0, "Alice")>>)
Started == Replay(Joined, <<StartGameAction("p1", 0)>>)
Landed ==
  Replay(Started, <<PlaceLandAction("p1", 0, <<0, 0>>, "l1"),
                    PlaceLandAction("p1", 0, <<1, 0>>, "l2")>>)
Equipped ==
  Replay(Landed, <<SelectPieceAction("p1", 0, "b1", "builder", "personal"),
                   SelectPieceAction("p2", 0, "b2", "builder", "personal")>>)
\* the battle phase with b1 on the board, b2 on the board or still in p2's
\* stash, and either player holding the turn
Battle(current, placed) ==
  [Replay(Equipped,
          SubSeq(<<PlacePieceAction("p1", 0, "b1", <<0, 0>>, "personal"),
                   PlacePieceAction("p2", 0, "b2", <<1, 0>>, "personal")>>,
                 1, placed))
     EXCEPT !.phase = "battle", !.currentPlayerId = current]

Positions ==
  {Lobby, Joined, Started, Landed}
  \cup {Battle(current, placed) : current \in PlayerIds, placed \in 1..2}

InitPosition ==
  /\ InitRegistry(initialize(registerActions(EmptyRegistry)))
  /\ now = 0
  /\ state \in Positions
  /\ accepted = TRUE
  /\ actionCount = 0
  /\ log = <<>>
  /\ derived = NoResult
  /\ prevDerived = NoResult
  /\ lastCall = NoCall
  /\ history = <<>>
  /\ theBoard = Board(<<>>, <<>>, <<>>)
  /\ search = NoSearch

Try(a) == actionCount < MaxTries /\ Attempt(a)

TryJoinGame ==
  \E p \in PlayerIds, ts \in TryTimestamps : Try(JoinGameAction(p, ts, "Alice"))
TryStartGame ==
  \E p \in PlayerIds, ts \in SessionTimestamps : Try(StartGameAction(p, ts))
TryPlaceLand ==
  \E p \in PlayerIds, ts \in SessionTimestamps, c \in TryCoords :
    Try(PlaceLandAction(p, ts, c, "l3"))
TryPlaceCitadel ==
  \E p \in PlayerIds, ts \in SessionTimestamps, c \in TryCoords :
    Try(PlaceCitadelAction(p, ts, c, "c1"))
TrySelectPiece ==
  \E p \in PlayerIds, ts \in SessionTimestamps, dest \in {"personal", "community"} :
    Try(SelectPieceAction(p, ts, "b3", "builder", dest))
TryPlacePiece ==
  \/ \E p \in PlayerIds, ts \in SessionTimestamps, pid \in TryPieceIds, c \in TryCoords :
       Try(PlacePieceAction(p, ts, pid, c, "personal"))
  \/ \E p \in PlayerIds, ts \in SessionTimestamps :
       Try(PlacePieceAction(p, ts, "b3", <<1, 0>>, "community"))
TryMovePiece ==
  \E p \in PlayerIds, ts \in SessionTimestamps, pid \in TryPieceIds, to \in TryCoords :
    Try(MovePieceAction(p, ts, pid, NullPos, to))
TryCapturePiece ==
  \E p \in PlayerIds, ts \in SessionTimestamps, cap \in TryPieceIds :
    Try(CapturePieceAction(p, ts, Undefined, cap, NullPos))
TryEndTurn ==
  \E p \in PlayerIds, ts \in TryTimestamps : Try(EndTurnAction(p, ts))
TryConcede ==
  \E p \in PlayerIds, ts \in SessionTimestamps : Try(ConcedeAction(p, ts))
TryBuilderPlaceLand ==
  \E p \in PlayerIds, ts \in SessionTimestamps, c \in Coords :
    Try(BuilderPlaceLandAction(p, ts, "b1", "l3", c))
TryBuilderMoveLand ==
  \E p \in PlayerIds, ts \in SessionTimestamps, l \in {"l1", "l2"},
     from \in TryCoords, to \in Coords :
    Try(BuilderMoveLandAction(p, ts, "b1", l, from, to))
TryBuilderRemoveLand ==
  \E p \in PlayerIds, ts \in SessionTimestamps, l \in {"l1", "l2"}, c \in TryCoords :
    Try(BuilderRemoveLandAction(p, ts, "b1", l, c))
TryUnknown ==
  \E p \in PlayerIds, ts \in TryTimestamps : Try(UnknownAction(p, ts))

NextPosition ==
  \/ TryJoinGame \/ TryStartGame \/ TryPlaceLand \/ TryPlaceCitadel
  \/ TrySelectPiece \/ TryPlacePiece \/ TryMovePiece \/ TryCapturePiece
  \/ TryEndTurn \/ TryConcede \/ TryBuilderPlaceLand \/ TryBuilderMoveLand
  \/ TryBuilderRemoveLand \/ TryUnknown

SpecPosition == InitPosition /\ [][NextPosition]_vars

----------------------------------------------------------------------------
(* Claims about actions tried on a position (specification SpecPosition) *)

Simulated == lastCall.op = "DerivationUtils.simulateAction"

\* no two non-turtle pieces on the board stand on the same coordinate
PiecesApart(s) ==
  \A i, j \in DOMAIN s.pieces :
    (/\ i # j
     /\ s.pieces[i].position # NullPos /\ s.pieces[j].position # NullPos
     /\ s.pieces[i].type # "turtle" /\ s.pieces[j].type # "turtle")
      => s.pieces[i].position # s.pieces[j].position

\* C24: from any state in which no two non-turtle on-board pieces share a
\* coordinate, applying any action for which validateAction returned true
\* yields a state in which no two non-turtle on-board pieces share a
\* coordinate.
C24_ValidatedActionsKeepPiecesApart ==
  (Simulated /\ lastCall.verdict = True /\ PiecesApart(lastCall.input))
    => PiecesApart(lastCall.output)

\* C25: handlers no-op on invalid preconditions: for every registered core or
\* builder kind that has a validator, whenever that validator rejects an
\* action in a state, the kind's handler applied to the same state and action
\* returns the state unchanged.
C25_RejectedActionsAreNoOps ==
  (/\ Simulated
   /\ lastCall.action.type \in DOMAIN lastCall.registry.actionValidators
   /\ lastCall.verdict # True)
    => CallHandler(lastCall.registry.actionHandlers[lastCall.action.type],
                   lastCall.input, lastCall.action) = lastCall.input

\* C26: for every state and every action of any core, builder or unregistered
\* kind, the derivation engine's applyAction returns a state whose updatedAt
\* equals action.timestamp.
C26_UpdatedAtIsActionTimestamp ==
  Simulated => state.updatedAt = lastCall.action.timestamp

\* an action of an unregistered kind was applied to a state stamped earlier
C26_Witness ==
  /\ Simulated
  /\ lastCall.action.type = UnknownKind
  /\ lastCall.input.updatedAt # lastCall.action.timestamp
  /\ state.updatedAt = lastCall.action.timestamp

----------------------------------------------------------------------------
(* Claims about validateActionSequence (specification SpecLog) *)

Sequenced == lastCall.op = "DerivationUtils.validateActionSequence"

\* the 0-based indexes the reported entries carry
ReportedIndexes == {lastCall.errors[k].index : k \in DOMAIN lastCall.errors}

\* the state the call has replayed before the action at 0-based index i: the
\* zero-action state with the earlier actions that have no entry folded in
ReplayedBefore(i) ==
  foldActions(lastCall.registry, BaseState(InitialState, lastCall.now),
              SubSeqAt(lastCall.actions,
                       {j \in 1..i : (j - 1) \notin ReportedIndexes}))

\* the verdict on the action at 0-based index i against the replayed state
VerdictAt(i) ==
  validateAction(lastCall.registry, ReplayedBefore(i), lastCall.actions[i + 1])

\* C27: validateActionSequence(init, A) examines every action of A without
\* stopping at the first failure: it reports one entry carrying the index,
\* kind and reason for each action that fails validation against the
\* incrementally replayed state, and returns valid=true exactly when no
\* action failed.
C27_EveryFailureReported ==
  Sequenced =>
    /\ \A k \in DOMAIN lastCall.errors :
         LET e == lastCall.errors[k]
         IN /\ e.index \in 0..(Len(lastCall.actions) - 1)
            /\ e.kind = lastCall.actions[e.index + 1].type
            /\ e.reason = VerdictAt(e.index)
            /\ \A m \in DOMAIN lastCall.errors : k < m => e.index < lastCall.errors[m].index
    /\ \A i \in 0..(Len(lastCall.actions) - 1) :
         (i \in ReportedIndexes) <=> (VerdictAt(i) # True)
    /\ lastCall.valid <=>
         \A i \in 0..(Len(lastCall.actions) - 1) : VerdictAt(i) = True

\* both actions of a log failed and both were reported
C27_Witness ==
  /\ Sequenced
  /\ Len(lastCall.actions) = 2
  /\ Len(lastCall.errors) = 2
  /\ ~lastCall.valid

----------------------------------------------------------------------------
(* CoordinateUtils.toKey / fromKey (Coordinate.ts).  A string is the sequence *)
(* of its characters.                                                        *)

MaxCoordinate == 12   \* keys are formed for coordinates in -MaxCoordinate..MaxCoordinate
KeyCoords ==
  {<<x, y>> : x \in -MaxCoordinate..MaxCoordinate, y \in -MaxCoordinate..MaxCoordinate}

DecimalDigit == <<"0", "1", "2", "3", "4", "5", "6", "7", "8", "9">>
NaN == "NaN"

\* the decimal digits of a natural number, most significant first
RECURSIVE DigitsOf(_)
DigitsOf(n) ==
  IF n < 10 THEN <<DecimalDigit[n + 1]>>
  ELSE Append(DigitsOf(n \div 10), DecimalDigit[(n % 10) + 1])

\* a number-to-string conversion that leaves out the minus sign
NumberToString_unsigned(n) == DigitsOf(Abs(n))

\* `${n}` for an integer n
NumberToString(n) == IF n < 0 THEN <<"-">> \o DigitsOf(-n) ELSE DigitsOf(n)

\* `${coord.x},${coord.y}`
toKey(coord) == NumberToString(coord[1]) \o <<",">> \o NumberToString(coord[2])

\* key.split(','): the pieces of key between the commas
RECURSIVE split(_)
split(key) ==
  IF \A i \in DOMAIN key : key[i] # ","
  THEN <<key>>
  ELSE LET i == CHOOSE k \in DOMAIN key :
                  key[k] = "," /\ \A j \in 1..(k - 1) : key[j] # ","
       IN <<SubSeq(key, 1, i - 1)>> \o split(SubSeq(key, i + 1, Len(key)))

\* the value of a string of decimal digits
RECURSIVE ValueOf(_)
ValueOf(digits) ==
  IF digits = <<>> THEN 0
  ELSE 10 * ValueOf(SubSeq(digits, 1, Len(digits) - 1))
       + (CHOOSE d \in 0..9 : DecimalDigit[d + 1] = digits[Len(digits)])

AllDigits(str) == str # <<>> /\ \A i \in DOMAIN str : str[i] \in Range(DecimalDigit)

\* Number(str) for a string of an optional sign and decimal digits; the empty
\* string is 0 and any other string of these characters is NaN
Number(str) ==
  IF str = <<>> THEN 0
  ELSE IF AllDigits(str) THEN ValueOf(str)
  ELSE IF Head(str) = "-" /\ AllDigits(Tail(str)) THEN -ValueOf(Tail(str))
  ELSE IF Head(str) = "+" /\ AllDigits(Tail(str)) THEN ValueOf(Tail(str))
  ELSE NaN

\* const [x, y] = key.split(',').map(Number); return { x, y }
fromKey(key) ==
  LET parts == split(key)
  IN <<Number(parts[1]), IF Len(parts) >= 2 THEN Number(parts[2]) ELSE Undefined>>

(* Specification SpecKeys: a coordinate is turned into a key and the key is  *)
(* parsed back.                                                              *)

InitKeys ==
  /\ InitRegistry(registerActions(EmptyRegistry))
  /\ now = 0
  /\ state = BaseState(InitialState, 0)
  /\ accepted = TRUE
  /\ actionCount = 0
  /\ log = <<>>
  /\ derived = NoResult
  /\ prevDerived = NoResult
  /\ lastCall = NoCall
  /\ history = <<>>
  /\ theBoard = Board(<<>>, <<>>, <<>>)
  /\ \E coord \in KeyCoords : search = Pending("toKey", [coord |-> coord])

CallToKey ==
  /\ search.op = "toKey" /\ search.status = "called"
  /\ search' = Returned(search, toKey(search.args.coord))
  /\ UNCHANGED <<theBoard, gameVars>>

CallFromKey ==
  /\ search.op = "toKey" /\ search.status = "returned"
  /\ search' = [op |-> "fromKey",
                args |-> [coord |-> search.args.coord, key |-> search.result],
                status |-> "returned", result |-> fromKey(search.result)]
  /\ UNCHANGED <<theBoard, gameVars>>

NextKeys == CallToKey \/ CallFromKey

SpecKeys == InitKeys /\ [][NextKeys]_vars

\* C29: fromKey(toKey(c)) = c for every integer coordinate c, negative
\* components included.
C29_KeyRoundTrip ==
  (search.op = "fromKey" /\ search.status = "returned")
    => search.result = search.args.coord

\* a coordinate with a negative two-digit x was turned into the key "-12,7"
\* and parsed back
C29_Witness ==
  /\ search.op = "fromKey" /\ search.status = "returned"
  /\ search.args.key = <<"-", "1", "2", ",", "7">>
  /\ search.result = <<-12, 7>>

----------------------------------------------------------------------------
(* Claims about the distance findPath reports (specification SpecBoard) *)

\* the moves made along the returned path: one per coordinate after start
StepsAlong(path, options) ==
  IF options.includeStart /\ Len(path) > 0 THEN Len(path) - 1 ELSE Len(path)

\* C30: when findPath returns found=true, distance is the number of steps
\* (moves) from start to goal along the returned path - 0 when start equals
\* goal, 1 for two orthogonally adjacent cells - for every value of the
\* includeStart option.
C30_DistanceCountsSteps ==
  FoundPath =>
    /\ search.result.distance
         = StepsAlong(search.result.path, search.args.options)
    /\ search.args.start = search.args.goal => search.result.distance = 0
    /\ OrthogonalAdjacent(search.args.start, search.args.goal)
         => search.result.distance = 1

----------------------------------------------------------------------------
(* Claims about the length of the path found (specification SpecBoard) *)

\* the least number of orthogonal steps that lead from start to goal entering
\* coordinates of F only (goal is within reach)
MinSteps(start, goal, F) ==
  CHOOSE k \in 0..Cardinality(F) :
    /\ goal \in WithinSteps({start}, F, k)
    /\ \A j \in 0..(k - 1) : goal \notin WithinSteps({start}, F, j)

\* a returned findPath call with the default options that found a path
DefaultPathFound ==
  /\ search.op = "findPath" /\ search.status = "returned"
  /\ search.args.options = DefaultOptions
  /\ search.result.found

\* the coordinates a step may enter under the default isValidMove
FreeFoundation(b) == FoundationCoordinates(b) \ OccupiedCoordinates(b)

\* C33: with default options, a path that findPath reports with found=true
\* has the minimum number of steps among all valid paths from start to goal.
C33_FoundPathIsShortest ==
  DefaultPathFound =>
    StepsAlong(search.result.path, search.args.options)
      = MinSteps(search.args.start, search.args.goal, FreeFoundation(theBoard))

\* a shortest path was found where a longer valid path exists as well: the
\* goal stays within reach when a coordinate of the path is closed
C33_Witness ==
  /\ DefaultPathFound
  /\ \E i \in 2..(Len(search.result.path) - 1) :
       LET rest == FreeFoundation(theBoard) \ {search.result.path[i]}
       IN /\ search.args.goal \in WithinSteps({search.args.start}, rest, Cardinality(rest))
          /\ MinSteps(search.args.start, search.args.goal, rest)
               > StepsAlong(search.result.path, search.args.options)

----------------------------------------------------------------------------
(* Claims about the builder's land removal (specification SpecPosition) *)

\* builder-remove-land was applied to a state that holds the land it names
LandRemoved ==
  /\ Simulated
  /\ lastCall.action.type = "builder-remove-land"
  /\ FindLand(lastCall.input, lastCall.action.landId) # {}

\* the coordinate of the land the action names, in the state it was applied to
RemovedLandPosition ==
  (CHOOSE l \in FindLand(lastCall.input, lastCall.action.landId) : TRUE).position

\* C31: applying builder-remove-land for a land removes that land and sends
\* exactly the pieces standing on that land's coordinate to the graveyard with
\* position null: afterwards no on-board piece is at that coordinate, and
\* every other land and every other piece is unchanged.
C31_RemoveLandSendsItsPiecesToGraveyard ==
  LandRemoved =>
    LET before == lastCall.input
        onLand == PiecesAt(before, RemovedLandPosition)
        sent == Filter(before.pieces, onLand)
    IN /\ state.lands = WithoutId(before.lands, lastCall.action.landId)
       /\ PiecesAt(state, RemovedLandPosition) = {}
       /\ state.pieces = Filter(before.pieces, Range(before.pieces) \ onLand)
       /\ state.graveyard
            = before.graveyard
              \o [i \in DOMAIN sent |-> [sent[i] EXCEPT !.position = NullPos]]

----------------------------------------------------------------------------
(* Claims about the phases of a game (specification Spec) *)

MaxPhaseLog == 3     \* length of the logs searched for a phase

\* the actions a session plays: every core and builder kind, and an unknown one
SessionActions ==
  LET ts == 1 IN
  {JoinGameAction(p, ts, "Alice") : p \in PlayerIds}
  \cup {StartGameAction(p, ts) : p \in PlayerIds}
  \cup {PlaceLandAction(p, ts, c, LandIdAt(c)) : p \in PlayerIds, c \in Coords}
  \cup {PlaceCitadelAction(p, ts, c, "c1") : p \in PlayerIds, c \in Coords}
  \cup {SelectPieceAction(p, ts, "b1", pt, dest) :
          p \in PlayerIds, pt \in PieceTypes, dest \in {"personal", "community"}}
  \cup {PlacePieceAction(p, ts, "b1", c, src) :
          p \in PlayerIds, c \in Coords, src \in {"personal", "community"}}
  \cup {MovePieceAction(p, ts, "b1", NullPos, to) : p \in PlayerIds, to \in Coords}
  \cup {CapturePieceAction(p, ts, Undefined, "b1", NullPos) : p \in PlayerIds}
  \cup {EndTurnAction(p, ts) : p \in PlayerIds}
  \cup {ConcedeAction(p, ts) : p \in PlayerIds}
  \cup {UnknownAction(p, ts) : p \in PlayerIds}

\* the states derived from the states of S by logs of at most k session actions
RECURSIVE DerivedWithin(_, _)
DerivedWithin(S, k) ==
  LET grown == S \cup {applyAction(TheRegistry, s, a) : s \in S, a \in SessionActions}
  IN IF k = 0 \/ grown = S THEN S ELSE DerivedWithin(grown, k - 1)

\* C34: every one of the six game phases is reachable through action kinds:
\* for each phase p there is a finite log of registered core actions whose
\* derived state has phase p, 'citadel-placement' and 'battle' among them.
C34_EveryPhaseReachable ==
  actionCount = 0 =>
    \A i \in DOMAIN GamePhase :
      \E s \in DerivedWithin({state}, MaxPhaseLog) : s.phase = GamePhase[i]

\* the phases the handlers assign: setup at creation, land-placement
\* (handleStartGame) and finished (handleConcede)
C34_DerivedPhases ==
  state.phase \in {"setup", "land-placement", "finished"}

\* C35: the finished phase is absorbing: once a derived state has phase
\* 'finished', applying any further core action (another concede by any
\* player included) leaves phase 'finished' and winnerId unchanged.
C35_FinishedIsAbsorbing ==
  [][state.phase = "finished"
       => state'.phase = "finished" /\ state'.winnerId = state.winnerId]_vars

\* what the handlers do keep: a finished game stays finished
C35_FinishedStaysFinished ==
  [][state.phase = "finished" => state'.phase = "finished"]_vars

----------------------------------------------------------------------------
(* Claims about the turn order (specification Spec) *)

\* the state after k end-turn actions, each played by the player whose turn it is
RECURSIVE EndTurns(_, _)
EndTurns(s, k) ==
  IF k = 0 THEN s
  ELSE EndTurns(applyAction(TheRegistry, s, EndTurnAction(s.currentPlayerId, 1)),
                k - 1)

\* C36: when currentPlayerId is one of the n >= 1 players, applying end-turn
\* sets currentPlayerId to the next player in join order, wrapping from the
\* last player to the first, so that n consecutive end-turn actions return
\* currentPlayerId to its starting value and every player gets exactly one
\* turn in between.
C36_EndTurnCyclesInJoinOrder ==
  LET ids == PlayerIdsOf(state)
      n == Len(ids)
  IN \A i \in 1..n :
       ids[i] = state.currentPlayerId =>
         /\ \A p \in PlayerIds :
              applyAction(TheRegistry, state, EndTurnAction(p, 1)).currentPlayerId
                = ids[IF i = n THEN 1 ELSE i + 1]
         /\ EndTurns(state, n).currentPlayerId = state.currentPlayerId
         /\ \A j \in 1..n :
              Cardinality({k \in 0..(n - 1) :
                             EndTurns(state, k).currentPlayerId = ids[j]}) = 1

\* an end-turn has passed the turn from the first of two players to the
\* second: the next end-turn wraps
C36_Witness ==
  /\ Len(state.players) = 2
  /\ state.currentPlayerId = state.players[2].id
  /\ EndTurns(state, 1).currentPlayerId = state.players[1].id

----------------------------------------------------------------------------
(* The switch-based derivation (engine/GameStateDerivation.ts), which applies *)
(* the ten core kinds with private methods instead of the registry.           *)

applyJoinGame(s, a) ==
  IF \E p \in Range(s.players) : p.id = a.playerId THEN s
  ELSE LET newPlayer == [id |-> a.playerId, name |-> a.playerName,
                         isHost |-> FALSE, personalStash |-> <<>>,
                         turnOrder |-> Len(s.players)]
       IN [s EXCEPT !.players = s.players \o <<newPlayer>>]

applyStartGame(s, a) ==
  IF s.phase # "setup" THEN s
  ELSE [s EXCEPT !.phase = "land-placement",
                 !.currentPlayerId = IF s.players = <<>> THEN Null
                                     ELSE s.players[1].id]

applyPlaceLand(s, a) ==
  IF \E l \in Range(s.lands) : l.position = a.position THEN s
  ELSE LET newLand == [id |-> a.landId, position |-> a.position,
                       ownerId |-> a.playerId]
       IN [s EXCEPT !.lands = s.lands \o <<newLand>>]

applyPlaceCitadel(s, a) ==
  LET at == {i \in DOMAIN s.lands : s.lands[i].position = a.position}
  IN IF at = {} THEN s
     ELSE IF s.lands[Min(at)].ownerId # a.playerId THEN s
     ELSE LET newCitadel == [id |-> a.citadelId, position |-> a.position,
                             ownerId |-> a.playerId]
          IN [s EXCEPT !.citadels = s.citadels \o <<newCitadel>>]

applySelectPiece(s, a) ==
  LET personal == a.destination = "personal"
      newPiece == [id |-> a.pieceId, type |-> a.pieceType,
                   ownerId |-> IF personal THEN a.playerId ELSE "community",
                   position |-> NullPos]
      updatedPlayers ==
        [i \in DOMAIN s.players |->
           IF s.players[i].id = a.playerId
           THEN [s.players[i] EXCEPT !.personalStash = @ \o <<newPiece>>]
           ELSE s.players[i]]
  IN IF personal THEN [s EXCEPT !.players = updatedPlayers]
     ELSE [s EXCEPT !.communityPool = @ \o <<newPiece>>]

\* the indexes of seq whose element has the id pid
IndexesOfId(seq, pid) == {i \in DOMAIN seq : seq[i].id = pid}

applyPlacePiece(s, a) ==
  LET owners == IndexesOfId(s.players, a.playerId)
      stash == IF owners = {} THEN <<>> ELSE s.players[Min(owners)].personalStash
      source == IF a.source = "personal" THEN stash ELSE s.communityPool
      hits == IndexesOfId(source, a.pieceId)
  IN IF hits = {} THEN s
     ELSE LET piece == IF a.source = "personal" THEN source[Min(hits)]
                       ELSE [source[Min(hits)] EXCEPT !.ownerId = a.playerId]
              updatedPlayers ==
                IF a.source # "personal" THEN s.players
                ELSE [i \in DOMAIN s.players |->
                        IF s.players[i].id = a.playerId
                        THEN [s.players[i] EXCEPT
                                !.personalStash =
                                  SelectSeq(@, LAMBDA q : q.id # a.pieceId)]
                        ELSE s.players[i]]
              updatedCommunityPool ==
                IF a.source = "personal" THEN s.communityPool
                ELSE SelectSeq(s.communityPool, LAMBDA q : q.id # a.pieceId)
          IN [s EXCEPT !.players = updatedPlayers,
                       !.communityPool = updatedCommunityPool,
                       !.pieces = @ \o <<[piece EXCEPT !.position = a.position]>>]

applyMovePiece(s, a) ==
  [s EXCEPT !.pieces =
     [i \in DOMAIN s.pieces |->
        IF s.pieces[i].id = a.pieceId
        THEN [s.pieces[i] EXCEPT !.position = a.toPosition]
        ELSE s.pieces[i]]]

applyCapturePiece(s, a) ==
  LET hits == IndexesOfId(s.pieces, a.capturedPieceId)
  IN IF hits = {} THEN s
     ELSE [s EXCEPT
             !.pieces = SelectSeq(@, LAMBDA q : q.id # a.capturedPieceId),
             !.graveyard = @ \o <<[s.pieces[Min(hits)] EXCEPT !.position = NullPos]>>]

applyEndTurn(s, a) ==
  LET n == Len(s.players)
      hits == {i \in 1..n : s.players[i].id = s.currentPlayerId}
      currentPlayerIndex == IF hits = {} THEN -1 ELSE Min(hits) - 1
  IN [s EXCEPT !.currentPlayerId =
        IF n = 0 THEN Null ELSE s.players[((currentPlayerIndex + 1) % n) + 1].id]

applyConcedeGame(s, a) ==
  LET others == {i \in DOMAIN s.players : s.players[i].id # a.playerId}
  IN [s EXCEPT !.phase = "finished",
               !.winnerId = IF others = {} THEN Null ELSE s.players[Min(others)].id,
               !.currentPlayerId = Null]

\* a switch whose default case returns currentState, without the new timestamp
SwitchApplyAction_defaultKeepsCurrent(currentState, a) ==
  LET baseState == [currentState EXCEPT !.updatedAt = a.timestamp]
  IN CASE a.type = "join-game" -> applyJoinGame(baseState, a)
       [] a.type = "start-game" -> applyStartGame(baseState, a)
       [] a.type = "place-land" -> applyPlaceLand(baseState, a)
       [] a.type = "place-citadel" -> applyPlaceCitadel(baseState, a)
       [] a.type = "select-piece" -> applySelectPiece(baseState, a)
       [] a.type = "place-piece" -> applyPlacePiece(baseState, a)
       [] a.type = "move-piece" -> applyMovePiece(baseState, a)
       [] a.type = "capture-piece" -> applyCapturePiece(baseState, a)
       [] a.type = "end-turn" -> applyEndTurn(baseState, a)
       [] a.type = "concede" -> applyConcedeGame(baseState, a)
       [] OTHER -> currentState

\* GameStateDerivation.applyAction of engine/GameStateDerivation.ts
SwitchApplyAction(currentState, a) ==
  LET baseState == [currentState EXCEPT !.updatedAt = a.timestamp]
  IN CASE a.type = "join-game" -> applyJoinGame(baseState, a)
       [] a.type = "start-game" -> applyStartGame(baseState, a)
       [] a.type = "place-land" -> applyPlaceLand(baseState, a)
       [] a.type = "place-citadel" -> applyPlaceCitadel(baseState, a)
       [] a.type = "select-piece" -> applySelectPiece(baseState, a)
       [] a.type = "place-piece" -> applyPlacePiece(baseState, a)
       [] a.type = "move-piece" -> applyMovePiece(baseState, a)
       [] a.type = "capture-piece" -> applyCapturePiece(baseState, a)
       [] a.type = "end-turn" -> applyEndTurn(baseState, a)
       [] a.type = "concede" -> applyConcedeGame(baseState, a)
       [] OTHER -> baseState

\* the state deriveState of engine/GameStateDerivation.ts starts its loop with
SwitchBaseState(initialState, t) ==
  [id |-> initialState.id, createdAt |-> initialState.createdAt, updatedAt |-> t,
   phase |-> "setup", config |-> initialState.config, players |-> <<>>,
   currentPlayerId |-> Null, lands |-> <<>>, pieces |-> <<>>, citadels |-> <<>>,
   graveyard |-> <<>>, communityPool |-> <<>>, winnerId |-> Null]

(* Specification SpecTwin: one log is derived by both implementations, action *)
(* by action: state is the state the registry-based derivation has reached    *)
(* (the registry holds the core handlers only), derived the state the         *)
(* switch-based derivation has reached on the same prefix.                    *)

\* the ten core kinds, an unregistered kind and a kind only the builder registers
TwinActions ==
  SessionActions \cup {BuilderPlaceLandAction("p1", 1, "b1", "l3", <<2, 0>>)}

InitTwin ==
  /\ InitRegistry(initialize(EmptyRegistry))
  /\ now = 0
  /\ state = BaseState(InitialState, now)
  /\ accepted = TRUE
  /\ actionCount = 0
  /\ log = <<>>
  /\ derived = SwitchBaseState(InitialState, now)
  /\ prevDerived = NoResult
  /\ lastCall = NoCall
  /\ history = <<>>
  /\ theBoard = Board(<<>>, <<>>, <<>>)
  /\ search = NoSearch

DeriveBoth ==
  \E a \in TwinActions :
    /\ actionCount < MaxActions
    /\ actionCount' = actionCount + 1
    /\ state' = applyAction(TheRegistry, state, a)
    /\ derived' = SwitchApplyAction(derived, a)
    /\ UNCHANGED <<boardVars, regVars, now, accepted, log, prevDerived, lastCall,
                   history>>

NextTwin == DeriveBoth

SpecTwin == InitTwin /\ [][NextTwin]_vars

\* C37: the switch-based derivation and the registry-based derivation are
\* equivalent on core logs: for every log made of the ten core action kinds
\* and unknown kinds, both deriveState implementations (the registry holding
\* the core handlers) produce equal states at every prefix of the log.
C37_DerivationsAgree == state = derived

\* both derivations have joined a player, selected a piece, placed it on the
\* board and captured it, at the timestamp of the actions
C37_Witness ==
  /\ actionCount > 0
  /\ state.graveyard # <<>>
  /\ state.pieces = <<>>
  /\ state.updatedAt = 1
  /\ derived.graveyard = state.graveyard

----------------------------------------------------------------------------
(* Specification SpecCache: DerivationUtils.getCurrentState is called with    *)
(* one cache, on one log after another, while the clock advances.  history is *)
(* the cache (a Map from action count to state, as a function), lastCall the  *)
(* last call with what it returned.                                           *)

\* DerivationUtils.getCurrentState(initialState, actions, cache): the state it
\* returns and the cache it leaves
getCurrentState(R, t, initialState, actions, cache) ==
  LET cachedCount == Len(actions)
  IN IF cachedCount \in DOMAIN cache
     THEN [state |-> cache[cachedCount], cache |-> cache]
     ELSE LET s == deriveState(R, t, initialState, actions)
          IN [state |-> s,
              cache |-> [n \in DOMAIN cache \cup {cachedCount} |->
                           IF n = cachedCount THEN s ELSE cache[n]]]

CacheActions ==
  {JoinGameAction("p1", 1, "Alice"), JoinGameAction("p2", 1, "Alice"),
   StartGameAction("p1", 1)}
CacheLogs ==
  {<<>>} \cup {<<a>> : a \in CacheActions}
  \cup {<<a, b>> : a \in CacheActions, b \in CacheActions}

InitCache ==
  /\ InitRegistry(initialize(registerActions(EmptyRegistry)))
  /\ now = 0
  /\ state = BaseState(InitialState, 0)
  /\ accepted = TRUE
  /\ actionCount = 0
  /\ log = <<>>
  /\ derived = NoResult
  /\ prevDerived = NoResult
  /\ lastCall = NoCall
  /\ history = <<>>
  /\ theBoard = Board(<<>>, <<>>, <<>>)
  /\ search = NoSearch

CallGetCurrentState ==
  \E actions \in CacheLogs :
    LET r == getCurrentState(TheRegistry, now, InitialState, actions, history)
    IN /\ history' = r.cache
       /\ lastCall' = [op |-> "DerivationUtils.getCurrentState",
                       actions |-> actions, now |-> now, hit |-> history = r.cache,
                       result |-> r.state]
       /\ UNCHANGED <<boardVars, regVars, now, state, accepted, actionCount, log,
                      derived, prevDerived>>

NextCache == CallGetCurrentState \/ Tick

SpecCache == InitCache /\ [][NextCache]_vars

\* C38: getCurrentState(init, A, cache) returns a state equal to
\* deriveState(init, A) for every log A, after any sequence of earlier
\* getCurrentState calls that used the same cache (calls with a different log
\* of the same length included).
C38_CachedStateIsDerivedState ==
  lastCall.op = "DerivationUtils.getCurrentState" =>
    lastCall.result
      = deriveState(TheRegistry, lastCall.now, InitialState, lastCall.actions)

\* what does hold: a call that finds no entry for the length of its log
\* returns the derived state
C38_MissReturnsDerivedState ==
  (lastCall.op = "DerivationUtils.getCurrentState" /\ ~lastCall.hit) =>
    lastCall.result
      = deriveState(TheRegistry, lastCall.now, InitialState, lastCall.actions)

----------------------------------------------------------------------------
(* Claims about the pieces of a position (specification SpecPosition) *)

RECURSIVE Concat(_)
Concat(seqs) == IF seqs = <<>> THEN <<>> ELSE Head(seqs) \o Concat(Tail(seqs))

\* the ids of the pieces of the four zones: the board, the graveyard, the
\* personal stashes and the community pool
ZoneIds(s) ==
  LET zones == s.pieces \o s.graveyard
               \o Concat([i \in DOMAIN s.players |-> s.players[i].personalStash])
               \o s.communityPool
  IN [i \in DOMAIN zones |-> zones[i].id]

\* no value occurs twice in seq
Once(seq) == \A i, j \in DOMAIN seq : i # j => seq[i] # seq[j]

PieceKinds ==
  {"place-piece", "move-piece", "capture-piece", "builder-move-land",
   "builder-remove-land"}

\* C39: pieces are conserved: from any state in which every piece id occurs
\* exactly once across the on-board pieces, the graveyard, the personal
\* stashes and the community pool, applying place-piece, move-piece,
\* capture-piece, builder-move-land or builder-remove-land yields a state with
\* the same set of piece ids across those zones, each still occurring once.
C39_PiecesConserved ==
  (/\ Simulated
   /\ lastCall.action.type \in PieceKinds
   /\ Once(ZoneIds(lastCall.input)))
    => /\ Once(ZoneIds(state))
       /\ Range(ZoneIds(state)) = Range(ZoneIds(lastCall.input))

\* a piece left the board for the graveyard, by capture or with its land
C39_Witness ==
  /\ Simulated
  /\ lastCall.action.type \in {"capture-piece", "builder-remove-land"}
  /\ Once(ZoneIds(lastCall.input))
  /\ Len(state.graveyard) > Len(lastCall.input.graveyard)
  /\ Len(state.pieces) < Len(lastCall.input.pieces)

\* the coordinates of s that have foundation: a land or a turtle
FoundationOf(s) ==
  {l.position : l \in Range(s.lands)}
  \cup {p.position : p \in {q \in Range(s.pieces) : q.type = "turtle"}}

\* every on-board piece that is not a turtle stands on foundation
OnFoundation(s) ==
  \A p \in Range(s.pieces) :
    (p.position # NullPos /\ p.type # "turtle") => p.position \in FoundationOf(s)

\* C40: from any state in which every on-board non-turtle piece stands on a
\* coordinate that has foundation, applying any action for which
\* validateAction returned true yields a state with the same property: no
\* piece is ever placed on, moved onto, or left standing on water.
C40_ValidatedActionsKeepPiecesOnFoundation ==
  (Simulated /\ lastCall.verdict = True /\ OnFoundation(lastCall.input))
    => OnFoundation(state)

----------------------------------------------------------------------------
(* The entity engine: Entity.check_action / do_action (entity.svelte.ts),    *)
(* Action.simulate (action.ts), Place (base_actions.ts), the land and        *)
(* citadel placement rules (pieces/land.ts, pieces/citadel.ts), the board    *)
(* (board.svelte.ts) and the game (game.ts).  GameData is the record         *)
(* [players, tiles, turn]: players in player_order, each with its personal   *)
(* stash, and tiles a function from the coordinates that have a tile to      *)
(* their entity lists.                                                       *)

EntityData(kind, owner, id) == [kind |-> kind, owner |-> owner, id |-> id]
WaterEntity == EntityData("Water", "game", "water")

\* enum Layer {WATER, LAND, WALKING, FLYING}: Land is on LAND, every other
\* entity keeps the default WALKING
LayerOf(kind) == CASE kind = "Water" -> "WATER" [] kind = "Land" -> "LAND"
                   [] OTHER -> "WALKING"

\* the action names an entity of the kind defines (action_types)
ActionNamesOf(kind) == IF kind \in {"Land", "Citadel"} THEN {"place"} ELSE {}

\* Board.get_tile_at(...).data.entities: a coordinate without a tile is water
EntitiesAt(data, c) ==
  IF c \in DOMAIN data.tiles THEN data.tiles[c] ELSE <<WaterEntity>>

\* EntityList.has_entity_at_layer
has_entity_at_layer(entities, layer) ==
  \E i \in DOMAIN entities : LayerOf(entities[i].kind) = layer

\* Board.get_adjacent(tile): the orthogonal neighbours whose first entity is
\* not water
get_adjacent(data, c) ==
  {n \in Range(getOrthogonalAdjacent(c)) : EntitiesAt(data, n)[1].kind # "Water"}

\* Board.get_connected_tiles(tile): the breadth-first closure from the tile
RECURSIVE get_connected_tiles(_, _)
get_connected_tiles(data, visited) ==
  LET grown == visited \cup UNION {get_adjacent(data, c) : c \in visited}
  IN IF grown = visited THEN visited ELSE get_connected_tiles(data, grown)

CitadelTiles(data) ==
  {c \in DOMAIN data.tiles :
     \E i \in DOMAIN data.tiles[c] : data.tiles[c][i].kind = "Citadel"}

\* Board.citadels_are_connected (the first citadel tile is any of them: the
\* tiles reached from it hold every citadel tile or none of the choices do)
citadels_are_connected(data) ==
  LET citadels == CitadelTiles(data)
  IN IF Cardinality(citadels) < 2 THEN TRUE
     ELSE LET first_citadel == CHOOSE c \in citadels : TRUE
          IN citadels \subseteq get_connected_tiles(data, {first_citadel})

\* Game.current_player: players[turn % players.length]
current_player(data) == data.players[(data.turn % Len(data.players)) + 1].id

\* Game.me: the player whose id is the signed-in user's, or null
me(data, user) ==
  IF \E i \in DOMAIN data.players : data.players[i].id = user THEN user ELSE Null

\* Game.get_entity_by_id, as the place the entity is found in: "tile" (the
\* first tile that holds it), "stash", or "none"
LocationOf(data, id) ==
  IF \E c \in DOMAIN data.tiles : \E i \in DOMAIN data.tiles[c] :
       data.tiles[c][i].id = id
  THEN "tile"
  ELSE IF \E p \in DOMAIN data.players :
            \E i \in DOMAIN data.players[p].personal_stash :
              data.players[p].personal_stash[i].id = id
  THEN "stash"
  ELSE "none"

AllEntities(data) ==
  UNION {Range(data.tiles[c]) : c \in DOMAIN data.tiles}
  \cup UNION {Range(data.players[p].personal_stash) : p \in DOMAIN data.players}

\* Place.execute(target, game) for the entity, game.me being player; with no
\* player signed in the call of remove_from_personal_stash on null raises a
\* TypeError after the entity was pushed onto the tile
PlaceExecute(data, player, entity, target) ==
  LET placed ==
        [data EXCEPT !.tiles =
           IF target \in DOMAIN data.tiles
           THEN [data.tiles EXCEPT ![target] = Append(@, entity)]
           ELSE [c \in DOMAIN data.tiles \cup {target} |->
                   IF c = target THEN <<entity>> ELSE data.tiles[c]]]
  IN IF player = Null THEN [error |-> "TypeError", data |-> placed]
     ELSE [error |-> "none",
           data |-> [placed EXCEPT
                       !.players = [i \in DOMAIN data.players |->
                                      IF data.players[i].id = player
                                      THEN [data.players[i] EXCEPT
                                              !.personal_stash = WithoutId(@, entity.id)]
                                      ELSE data.players[i]],
                       !.turn = @ + 1]]

\* Place.check, PlaceLand.check and PlaceCitadel.check on the live game: the
\* RuleViolation they throw, or "none"
PlaceCheck(data, entity, target) ==
  IF has_entity_at_layer(EntitiesAt(data, target), LayerOf(entity.kind))
    THEN "RuleViolation: tile already has an entity at the layer"
  ELSE IF LocationOf(data, entity.id) = "tile"
    THEN "RuleViolation: entity is already on the board"
  ELSE IF entity.kind = "Land"
    THEN LET number_of_lands ==
               Cardinality({c \in DOMAIN data.tiles :
                              has_entity_at_layer(data.tiles[c], "LAND")})
             has_adjacent_land ==
               \E c \in DOMAIN data.tiles :
                 Near(c, target) /\ has_entity_at_layer(data.tiles[c], "LAND")
         IN IF number_of_lands > 0 /\ ~has_adjacent_land
            THEN "RuleViolation: land must be adjacent to another land"
            ELSE "none"
  ELSE IF \E p \in DOMAIN data.players :
            has_entity_at_layer(data.players[p].personal_stash, "LAND")
    THEN "RuleViolation: citadels are placed after all lands"
  ELSE "none"

\* Action.simulate(target): execute on a copy of the game, a GameError of
\* execute being swallowed; copyUser is the user signed in to the copy
simulate(data, copyUser, entity, target) ==
  IF LocationOf(data, entity.id) = "none"
  THEN [error |-> "GameError: entity not found in the simulated game", data |-> data]
  ELSE PlaceExecute(data, me(data, copyUser), entity, target)

\* Entity.check_action(action_name, target): the error it throws, or "none"
check_action(data, user, copyUser, entity, action_name, target) ==
  IF action_name \notin ActionNamesOf(entity.kind)
    THEN "GameError: action is not defined for the entity kind"
  ELSE IF me(data, user) = Null THEN "GameError: no player is signed in"
  ELSE IF me(data, user) # current_player(data) THEN "GameError: not your turn"
  ELSE LET new_game == simulate(data, copyUser, entity, target)
       IN IF new_game.error # "none" THEN new_game.error
          ELSE IF ~citadels_are_connected(new_game.data)
            THEN "RuleViolation: This action would disconnect the citadels."
          ELSE PlaceCheck(data, entity, target)

\* a do_action that executes on the live game before it checks
do_action_executeFirst(game, user, copyUser, entity, action_name, target) ==
  LET executed == PlaceExecute(game.data, me(game.data, user), entity, target)
      error == check_action(game.data, user, copyUser, entity, action_name, target)
  IN [error |-> error, data |-> executed.data,
      written |-> error = "none" /\ game.game_code # Null]

\* Entity.do_action(action_name, target) on the live game; written tells
\* whether update_game handed the data to setDoc
do_action(game, user, copyUser, entity, action_name, target) ==
  LET error == check_action(game.data, user, copyUser, entity, action_name, target)
  IN IF error # "none" THEN [error |-> error, data |-> game.data, written |-> FALSE]
     ELSE LET executed == PlaceExecute(game.data, me(game.data, user), entity, target)
          IN IF game.game_code = Null
             THEN [error |-> "GameError: Game code is not set",
                   data |-> executed.data, written |-> FALSE]
             ELSE [error |-> "none", data |-> executed.data, written |-> TRUE]

(* Specification SpecEntity: two players, each with one land and one citadel *)
(* in the personal stash, call do_action from the user interface.  state is  *)
(* the live game (its data and game_code), derived the document last handed  *)
(* to setDoc, lastCall the last do_action call.                              *)

EntityCoords == {<<0, 0>>, <<1, 0>>, <<1, 1>>}
EntityUsers == {"p1", "p2", Null}
GameCodes == {"ABCD", Null}

\* Game.create_player_data with lands_per_player = citadels_per_player = 1
PlayerData(id, land, citadel) ==
  [id |-> id,
   personal_stash |-> <<EntityData("Land", id, land), EntityData("Citadel", id, citadel)>>]

LobbyData ==
  [players |-> <<PlayerData("p1", "L1", "K1"), PlayerData("p2", "L2", "K2")>>,
   tiles |-> <<>>, turn |-> 1]

\* the entities the user interface offers to user: the user's stash and the board
Offered(data, user) ==
  UNION {Range(data.tiles[c]) : c \in DOMAIN data.tiles}
  \cup UNION {Range(data.players[p].personal_stash) :
                p \in {q \in DOMAIN data.players : data.players[q].id = user}}

InitEntity ==
  /\ InitRegistry(registerActions(EmptyRegistry))
  /\ now = 0
  /\ \E code \in GameCodes : state = [data |-> LobbyData, game_code |-> code]
  /\ accepted = TRUE
  /\ actionCount = 0
  /\ log = <<>>
  /\ derived = [written |-> FALSE, data |-> LobbyData]
  /\ prevDerived = NoResult
  /\ lastCall = NoCall
  /\ history = <<>>
  /\ theBoard = Board(<<>>, <<>>, <<>>)
  /\ search = NoSearch

DoAction ==
  \E user \in EntityUsers, action_name \in {"place", "move"}, target \in EntityCoords :
    \E entity \in Offered(state.data, user), copyUser \in {user, Null} :
      LET r == do_action(state, user, copyUser, entity, action_name, target)
      IN /\ state' = [state EXCEPT !.data = r.data]
         /\ derived' = IF r.written THEN [written |-> TRUE, data |-> r.data]
                       ELSE derived
         /\ lastCall' = [op |-> "do_action", user |-> user, copyUser |-> copyUser,
                         entity |-> entity, action_name |-> action_name,
                         target |-> target, before |-> state.data,
                         document |-> derived, error |-> r.error,
                         written |-> r.written]
         /\ UNCHANGED <<boardVars, regVars, now, accepted, actionCount, log,
                        prevDerived, history>>

NextEntity == DoAction

SpecEntity == InitEntity /\ [][NextEntity]_vars

\* what check_action answers for the last call, on the game as it was
LastCheck ==
  check_action(lastCall.before, lastCall.user, lastCall.copyUser, lastCall.entity,
               lastCall.action_name, lastCall.target)

\* C32: in the entity engine validation precedes commit: do_action executes
\* an action on the live game and calls update_game only after check_action
\* has simulated it on a disposable copy and found the simulated board's
\* citadels connected; whenever check_action throws, the live game data is
\* exactly what it was before the call.
C32_ValidationPrecedesCommit ==
  lastCall.op = "do_action" =>
    /\ LastCheck # "none" =>
         /\ state.data = lastCall.before
         /\ derived = lastCall.document
         /\ lastCall.error = LastCheck
    /\ (state.data # lastCall.before \/ lastCall.written) =>
         /\ LastCheck = "none"
         /\ citadels_are_connected(
              simulate(lastCall.before, lastCall.copyUser, lastCall.entity,
                       lastCall.target).data)
    /\ lastCall.written => derived = [written |-> TRUE, data |-> state.data]

\* the second citadel was refused on a tile that only touches the first
\* citadel's tile diagonally, and the live game kept its data
C32_Witness ==
  /\ lastCall.op = "do_action"
  /\ lastCall.error = "RuleViolation: This action would disconnect the citadels."
  /\ lastCall.entity.kind = "Citadel"
  /\ Cardinality(CitadelTiles(state.data)) = 1
  /\ state.data = lastCall.before

=============================================================================
